---- MODULE Spec2Model ----
(***************************************************************************)
(* A model of rpminspect's inspection engine: the license validator        *)
(* (lib/inspect_license.c), the kernel module differ (lib/inspect_kmod.c), *)
(* the upstream source differ (lib/inspect_upstream.c) and the metadata    *)
(* inspection (lib/inspect_metadata.c), all reporting through the result   *)
(* sink (add_result), and the configuration loader (lib/init.c).           *)
(*                                                                         *)
(* C strings are sequences of one-character strings; a NULL pointer is the *)
(* value NULL.  A failed assert() ends the call with the outcome "abort",  *)
(* a read through a NULL pointer with the outcome "segv".                  *)
(***************************************************************************)
EXTENDS Integers, Sequences, FiniteSets, TLC

VARIABLES
    pc,            \* position of the running operation
    ret,           \* outcome of the operation: "", "true", "false", "abort", "segv"
    results,       \* ri->results: the findings recorded so far, in order
    worst_result,  \* ri->worst_result
    errlog,        \* lines written to stderr
    \* ---- license validator
    dbfile,        \* the license database on disk: a sequence of entries, or Unreadable
    licdb,         \* static licdb: NULL or the parsed database
    reads,         \* how often read_licensedb opened the database file
    tag,           \* the license expression handed to is_valid_license
    badwords,      \* ri->badwords
    peers,         \* ri->peers as the running inspection walks it
    idx,           \* index of the next peer or file to handle
    locals,        \* the counters of the running function (seen, valid, good, result)
    \* ---- kernel module differ
    files,         \* the after files foreach_peer_file hands to kmod_driver
    kmod_sev,      \* static sev of inspect_kmod.c
    kmod_waiver,   \* static waiver of inspect_kmod.c
    \* ---- upstream source differ
    build,         \* ri->peers of the build pair inspect_upstream looks at
    source,        \* static source of inspect_upstream.c
    up_sev,        \* static sev of inspect_upstream.c
    up_waiver,     \* static waiver of inspect_upstream.c
    \* ---- metadata differ
    vendor,        \* ri->vendor
    buildhost_subdomain,  \* ri->buildhost_subdomain
    \* ---- init_rpminspect
    config,        \* the configuration file and the profiles on disk, the arguments
    ri,            \* the other members of struct rpminspect
    \* ---- init_stat_whitelist and init_caps_whitelist
    stat_whitelist,  \* ri->stat_whitelist
    caps_whitelist,  \* ri->caps_whitelist
    statfile,      \* the lines getline has returned from the stat whitelist file
    capsfile       \* the lines getline has returned from the capabilities file

vars == <<pc, ret, results, worst_result, errlog,
          dbfile, licdb, reads, tag, badwords, peers, idx, locals,
          files, kmod_sev, kmod_waiver,
          build, source, up_sev, up_waiver,
          vendor, buildhost_subdomain, config, ri,
          stat_whitelist, caps_whitelist, statfile, capsfile>>

licenseVars == <<dbfile, licdb, reads, tag, badwords, peers>>
kmodVars == <<files, kmod_sev, kmod_waiver>>
upstreamVars == <<build, source, up_sev, up_waiver>>
metadataVars == <<vendor, buildhost_subdomain>>
initVars == <<config, ri>>
whitelistVars == <<stat_whitelist, caps_whitelist, statfile, capsfile>>

----------------------------------------------------------------------------
(* C strings *)

NULL == <<"<NULL>">>


UpperCase == <<"A","B","C","D","E","F","G","H","I","J","K","L","M",
               "N","O","P","Q","R","S","T","U","V","W","X","Y","Z">>
LowerCase == <<"a","b","c","d","e","f","g","h","i","j","k","l","m",
               "n","o","p","q","r","s","t","u","v","w","x","y","z">>

tolower(c) ==
    IF \E i \in 1..Len(UpperCase) : UpperCase[i] = c
    THEN LowerCase[CHOOSE i \in 1..Len(UpperCase) : UpperCase[i] = c]
    ELSE c

\* strcmp(a, b) == 0
strcmp0(a, b) == a = b

\* strcasecmp(a, b) == 0
strcasecmp0(a, b) ==
    /\ Len(a) = Len(b)
    /\ \A i \in 1..Len(a) : tolower(a[i]) = tolower(b[i])

S_and == <<"a","n","d">>
S_or == <<"o","r">>
S_yes == <<"y","e","s">>

----------------------------------------------------------------------------
(* The result sink (add_result) *)

RESULT_OK == "OK"
RESULT_INFO == "INFO"
RESULT_VERIFY == "VERIFY"
RESULT_BAD == "BAD"
RESULT_FATAL == "FATAL"

NOT_WAIVABLE == "NOT_WAIVABLE"
WAIVABLE_BY_ANYONE == "WAIVABLE_BY_ANYONE"

HEADER_LICENSE == "license"
HEADER_KMOD == "kmod"
HEADER_METADATA == "metadata"
HEADER_UPSTREAM == "upstream"

\* the order OK < INFO < VERIFY < BAD < FATAL of the severity enumeration
SevRank(s) ==
    CASE s = RESULT_OK -> 0
      [] s = RESULT_INFO -> 1
      [] s = RESULT_VERIFY -> 2
      [] s = RESULT_BAD -> 3
      [] s = RESULT_FATAL -> 4

\* one finding; msg names the kind of message, subject the peer or file
\* (by its number) and the item the message is about
Finding(sev, waiver, header, msg, subject) ==
    [severity |-> sev, waiverauth |-> waiver, header |-> header,
     msg |-> msg, subject |-> subject]

About(n, item) == [n |-> n, item |-> item]

add_resultLatestIsWorst(rs, sev, waiver, header, msg, subject) ==
    [results |-> Append(rs.results, Finding(sev, waiver, header, msg, subject)),
     worst |-> sev]

\* the sink after add_result(ri, sev, waiver, header, msg, ...) on sink rs
add_result(rs, sev, waiver, header, msg, subject) ==
    [results |-> Append(rs.results, Finding(sev, waiver, header, msg, subject)),
     worst |-> IF SevRank(sev) > SevRank(rs.worst) THEN sev ELSE rs.worst]

Sink == [results |-> results, worst |-> worst_result]

----------------------------------------------------------------------------
(* The statics of the inspections a specification does not run *)

\* inspect_kmod.c lines 27-28
KmodIdle ==
    /\ files = <<>>
    /\ kmod_sev = RESULT_INFO
    /\ kmod_waiver = NOT_WAIVABLE

\* static string_list_t *source: NULL, a list, or a pointer to a freed list
SourceNull == [state |-> "null", items |-> {}]

\* inspect_upstream.c lines 27-29; sev and waiver are zero-initialised
UpstreamIdle ==
    /\ build = <<>>
    /\ source = SourceNull
    /\ up_sev = RESULT_OK
    /\ up_waiver = NOT_WAIVABLE

\* a string_list_t pointer that is NULL
NoList == [null |-> TRUE, items |-> <<>>]

\* init.c lines 843-844
MetadataIdle ==
    /\ vendor = NULL
    /\ buildhost_subdomain = NoList

\* the specifications of the inspections start from an initialised struct
\* rpminspect and leave its settings alone
InitIdle ==
    /\ config = <<>>
    /\ ri = <<>>

\* init.c line 840 and the memset of line 828: no whitelist is loaded
WhitelistIdle ==
    /\ stat_whitelist = NoList
    /\ caps_whitelist = NoList
    /\ statfile = <<>>
    /\ capsfile = <<>>

----------------------------------------------------------------------------
(* is_valid_license and its helpers *)

\* a json_object pointer: NULL, or the parsed object with its entries in order
JsonNull == [null |-> TRUE, entries |-> <<>>]
Json(entries) == [null |-> FALSE, entries |-> entries]

\* a database file: one open() fails on, or one holding entries
Unreadable == [readable |-> FALSE, entries |-> <<>>]
DbFile(entries) == [readable |-> TRUE, entries |-> entries]

\* read_licensedb: NULL when the file cannot be opened, else the parsed entries
read_licensedb(file) == IF ~file.readable THEN JsonNull ELSE Json(file.entries)

\* ParenScan without the early return on a negative balance
RECURSIVE ParenScanNoEarlyReturn(_, _, _)
ParenScanNoEarlyReturn(t, i, balance) ==
    IF i > Len(t) THEN balance
    ELSE IF t[i] = "(" THEN ParenScanNoEarlyReturn(t, i + 1, balance + 1)
    ELSE IF t[i] = ")" THEN ParenScanNoEarlyReturn(t, i + 1, balance - 1)
    ELSE ParenScanNoEarlyReturn(t, i + 1, balance)

\* the loop of lines 225-238: the balance when the loop is left, which is
\* negative when the loop returns early
RECURSIVE ParenScan(_, _, _)
ParenScan(t, i, balance) ==
    IF i > Len(t) THEN balance
    ELSE IF balance < 0 THEN balance
    ELSE IF t[i] = "(" THEN ParenScan(t, i + 1, balance + 1)
    ELSE IF t[i] = ")" THEN ParenScan(t, i + 1, balance - 1)
    ELSE ParenScan(t, i + 1, balance)

\* lines 224-242: TRUE when is_valid_license goes on past the parentheses check
ParensMatch(t) == ParenScan(t, 1, 0) = 0

IsDelim(c) == c \in {"(", ")", " "}

\* the tokens successive strsep(&tagtokens, "() ") calls return, empty ones included
RECURSIVE strsep(_)
strsep(s) ==
    IF \E i \in 1..Len(s) : IsDelim(s[i])
    THEN LET i == CHOOSE k \in 1..Len(s) :
                      IsDelim(s[k]) /\ \A j \in 1..(k - 1) : ~IsDelim(s[j])
         IN <<SubSeq(s, 1, i - 1)>> \o strsep(SubSeq(s, i + 1, Len(s)))
    ELSE <<s>>

IsBoolean(token) == strcasecmp0(token, S_and) \/ strcasecmp0(token, S_or)

\* EntryStep taking every entry for approved
EntryStepIgnoringApproved(e, t, lic) ==
    LET fedora_abbrev == e.fedora_abbrev
        spdx_abbrev == e.spdx_abbrev
    IN  IF fedora_abbrev = NULL THEN "segv"
        ELSE IF Len(fedora_abbrev) = 0 /\ spdx_abbrev = NULL THEN "segv"
        ELSE IF Len(fedora_abbrev) = 0 /\ Len(spdx_abbrev) = 0 THEN "continue"
        ELSE IF strcmp0(t, fedora_abbrev) THEN "whole"
        ELSE IF spdx_abbrev = NULL THEN "segv"
        ELSE IF strcmp0(t, spdx_abbrev) \/ strcmp0(t, e.license_name) THEN "whole"
        ELSE IF strcmp0(lic, fedora_abbrev) \/ strcmp0(lic, spdx_abbrev) THEN "hit"
        ELSE "continue"

\* what one database entry does to check_license_abbrev's loop (lines 71-108):
\* "segv", "continue", "whole" (whole_match, return 0) or "hit" (return 1)
EntryStep(e, t, lic) ==
    LET fedora_abbrev == e.fedora_abbrev
        spdx_abbrev == e.spdx_abbrev
        approved == e.approved # NULL /\ strcasecmp0(e.approved, S_yes)
    IN  IF fedora_abbrev = NULL THEN "segv"
        ELSE IF Len(fedora_abbrev) = 0 /\ spdx_abbrev = NULL THEN "segv"
        ELSE IF Len(fedora_abbrev) = 0 /\ Len(spdx_abbrev) = 0 THEN "continue"
        ELSE IF ~approved THEN "continue"
        ELSE IF strcmp0(t, fedora_abbrev) THEN "whole"
        ELSE IF spdx_abbrev = NULL THEN "segv"
        ELSE IF strcmp0(t, spdx_abbrev) \/ strcmp0(t, e.license_name) THEN "whole"
        ELSE IF strcmp0(lic, fedora_abbrev) \/ strcmp0(lic, spdx_abbrev) THEN "hit"
        ELSE "continue"

RECURSIVE AbbrevLoop(_, _, _, _)
AbbrevLoop(db, i, t, lic) ==
    IF i > Len(db) THEN [n |-> 0, whole_match |-> FALSE, fault |-> ""]
    ELSE LET step == EntryStep(db[i], t, lic)
         IN CASE step = "segv" -> [n |-> 0, whole_match |-> FALSE, fault |-> "segv"]
              [] step = "whole" -> [n |-> 0, whole_match |-> TRUE, fault |-> ""]
              [] step = "hit" -> [n |-> 1, whole_match |-> FALSE, fault |-> ""]
              [] OTHER -> AbbrevLoop(db, i + 1, t, lic)

\* check_license_abbrev(tag, lic, &whole_match) on the loaded database db
check_license_abbrev(db, t, lic) ==
    IF lic = NULL THEN [n |-> 0, whole_match |-> FALSE, fault |-> "abort"]
    ELSE AbbrevLoop(db, 1, t, lic)

\* a collect step that counts every token
CollectCountingTokens(st, token) ==
    IF st.lic = NULL
    THEN [st EXCEPT !.lic = token, !.seen = @ + 1]
    ELSE [st EXCEPT !.lic = @ \o <<" ">> \o token, !.seen = @ + 1]

\* lines 267-283: the token is added to the phrase being collected
Collect(st, token) ==
    IF st.lic = NULL
    THEN [st EXCEPT !.lic = token, !.seen = @ + 1]
    ELSE [st EXCEPT !.lic = @ \o <<" ">> \o token, !.seen = (@ - 1) + 1]

\* the while loop of lines 256-298 over the tokens left; st is the state of
\* the locals lic, seen, valid, and out the outcome once the function is left;
\* looked counts the calls of check_license_abbrev
RECURSIVE TokenLoop(_, _, _, _)
TokenLoop(db, t, tokens, st) ==
    IF tokens = <<>> THEN st
    ELSE LET token == Head(tokens) IN
         IF Len(token) = 0 THEN TokenLoop(db, t, Tail(tokens), st)
         ELSE IF ~IsBoolean(token)
         THEN TokenLoop(db, t, Tail(tokens), Collect(st, token))
         ELSE LET r == check_license_abbrev(db, t, st.lic) IN
              IF r.fault # "" THEN [st EXCEPT !.out = r.fault, !.looked = @ + 1]
              ELSE IF r.whole_match
              THEN [st EXCEPT !.valid = @ + r.n, !.out = "true", !.looked = @ + 1]
              ELSE TokenLoop(db, t, Tail(tokens),
                       [st EXCEPT !.valid = @ + r.n, !.lic = NULL,
                                  !.looked = @ + 1])

\* is_valid_license(licensedb, tag) with the static licdb as it is on entry;
\* gives the outcome, the counters and the static licdb as the call leaves it;
\* compared tells that the call came to the comparison of line 317
is_valid_license(db0, file, t) ==
    LET none == [out |-> "false", seen |-> 0, valid |-> 0, licdb |-> db0, reads |-> 0,
                 looked |-> 0, compared |-> FALSE]
    IN  IF ~ParensMatch(t) THEN none
        ELSE LET db == IF db0.null THEN read_licensedb(file) ELSE db0
                 rd == IF db0.null THEN 1 ELSE 0
             IN IF db.null THEN [none EXCEPT !.reads = rd]
                ELSE LET st == TokenLoop(db.entries, t, strsep(t),
                                   [lic |-> NULL, seen |-> 0, valid |-> 0, out |-> "",
                                    looked |-> 0])
                         r == check_license_abbrev(db.entries, t, st.lic)
                         out == IF st.out # "" THEN st.out
                                ELSE IF r.fault # "" THEN r.fault
                                ELSE IF r.whole_match THEN "true"
                                ELSE IF st.seen = st.valid + r.n THEN "true"
                                ELSE "false"
                     IN [out |-> out, seen |-> st.seen,
                         valid |-> IF st.out # "" \/ r.fault # "" THEN st.valid
                                   ELSE st.valid + r.n,
                         licdb |-> db, reads |-> rd,
                         looked |-> IF st.out # "" THEN st.looked ELSE st.looked + 1,
                         compared |-> st.out = "" /\ r.fault = "" /\ ~r.whole_match]

----------------------------------------------------------------------------
(* Inputs of the license validator *)

MaxTagLex == 3
MaxDbLen == 2

\* the pieces license expressions are put together from
Lexemes == {<<"(">>, <<")">>, <<" ">>, <<"M">>, <<"M", " ", "M">>, <<"O", "R">>,
            <<" ", "a", "n", "d", " ">>}

RECURSIVE TagsUpTo(_)
TagsUpTo(n) ==
    IF n = 0 THEN {<<>>}
    ELSE LET shorter == TagsUpTo(n - 1)
         IN shorter \cup {t \o l : t \in shorter, l \in Lexemes}

Tags == TagsUpTo(MaxTagLex)

Entry(name, fedora, spdx, approved) ==
    [license_name |-> name, fedora_abbrev |-> fedora, spdx_abbrev |-> spdx,
     approved |-> approved]

S_M == <<"M">>
S_MM == <<"M", "M">>
S_M_M == <<"M", " ", "M">>
S_M_and_M == <<"M", " ", "a", "n", "d", " ", "M">>
S_Yes == <<"Y", "e", "s">>
S_no == <<"n", "o">>

\* the entries databases are put together from: approved and not, with both
\* abbreviations, with one or both empty, with one or both properties absent
Entries ==
    { Entry(S_MM, S_M, S_M_M, S_Yes),
      Entry(S_M_and_M, <<>>, <<>>, S_yes),
      Entry(<<"(", "M", ")">>, S_M_and_M, <<>>, S_yes),
      Entry(S_M_M, S_MM, S_M, S_no),
      Entry(<<"O", "R", "M">>, NULL, NULL, S_yes),
      Entry(S_M, S_M_M, NULL, S_Yes),
      Entry(<<"M", "(", "M", ")">>, <<")", "(">>, <<"(", "M">>, S_yes) }

\* the databases a JSON object can hold: its keys, the license names, differ
RECURSIVE DbsUpTo(_)
DbsUpTo(n) ==
    IF n = 0 THEN {<<>>}
    ELSE LET shorter == DbsUpTo(n - 1)
         IN shorter \cup
            {Append(d, e) : d \in shorter,
                            e \in Entries}

Databases == {d \in DbsUpTo(MaxDbLen) :
                 \A i, j \in 1..Len(d) : i # j => d[i].license_name # d[j].license_name}

----------------------------------------------------------------------------
(* Specification of single is_valid_license calls *)

InitLicense ==
    /\ pc = "start"
    /\ ret = ""
    /\ results = <<>>
    /\ worst_result = RESULT_OK
    /\ errlog = <<>>
    /\ dbfile \in {DbFile(d) : d \in Databases} \cup {Unreadable}
    /\ licdb = JsonNull
    /\ reads = 0
    /\ tag \in Tags
    /\ badwords = <<>>
    /\ peers = <<>>
    /\ idx = 0
    /\ locals = [seen |-> 0, valid |-> 0, looked |-> 0, compared |-> FALSE]
    /\ KmodIdle
    /\ UpstreamIdle
    /\ MetadataIdle
    /\ InitIdle
    /\ WhitelistIdle

CallIsValidLicense ==
    /\ pc = "start"
    /\ \E r \in {is_valid_license(licdb, dbfile, tag)} :
          /\ ret' = r.out
          /\ locals' = [seen |-> r.seen, valid |-> r.valid, looked |-> r.looked,
                        compared |-> r.compared]
          /\ licdb' = r.licdb
          /\ reads' = reads + r.reads
    /\ pc' = "done"
    /\ UNCHANGED <<results, worst_result, errlog, dbfile, tag, badwords, peers, idx>>
    /\ UNCHANGED kmodVars
    /\ UNCHANGED upstreamVars
    /\ UNCHANGED metadataVars
    /\ UNCHANGED initVars
    /\ UNCHANGED whitelistVars

NextLicense == CallIsValidLicense

SpecLicense == InitLicense /\ [][NextLicense]_vars

----------------------------------------------------------------------------
(* inspect_license *)

MaxPeers == 2

\* strcasestr(s, w) != NULL
RECURSIVE strcasestr(_, _)
strcasestr(s, w) ==
    IF Len(s) < Len(w) THEN FALSE
    ELSE IF strcasecmp0(SubSeq(s, 1, Len(w)), w) THEN TRUE
    ELSE strcasestr(Tail(s), w)

\* has_bad_word(s, badwords): some forbidden word occurs in s
has_bad_word(s, words) ==
    \E i \in 1..Len(words) : strcasestr(s, words[i])

\* check_peer_license(ri, actual_licensedb, hdr) for the peer numbered n whose
\* header holds the License tag license, on sink rs with the static licdb db0
check_peer_license(rs, db0, file, words, license, n) ==
    IF license = NULL
    THEN [ret |-> 1, fault |-> "", licdb |-> db0, reads |-> 0,
          sink |-> add_result(rs, RESULT_BAD, NOT_WAIVABLE, HEADER_LICENSE,
                              "empty_license", About(n, ""))]
    ELSE LET v == is_valid_license(db0, file, license)
             rs1 == IF v.out = "true"
                    THEN add_result(rs, RESULT_INFO, NOT_WAIVABLE, HEADER_LICENSE,
                                    "valid_license", About(n, ""))
                    ELSE add_result(rs, RESULT_BAD, NOT_WAIVABLE, HEADER_LICENSE,
                                    "invalid_license", About(n, ""))
             rs2 == IF has_bad_word(license, words)
                    THEN add_result(rs1, RESULT_BAD, NOT_WAIVABLE, HEADER_LICENSE,
                                    "bad_word", About(n, ""))
                    ELSE rs1
         IN IF v.out \in {"abort", "segv"}
            THEN [ret |-> 0, fault |-> v.out, licdb |-> v.licdb, reads |-> v.reads,
                  sink |-> rs]
            ELSE [ret |-> 1, fault |-> "", licdb |-> v.licdb, reads |-> v.reads,
                  sink |-> rs2]

KeepLicensedb(db0) == db0

\* free_licensedb: the static licdb afterwards
free_licensedb(db0) == JsonNull

\* the License tags of the after packages
PeerLicenses == {NULL, <<>>, S_M, S_M_M, <<"(">>}
LicensePeers == [after_rpm : {TRUE}, license : PeerLicenses]
                    \cup {[after_rpm |-> FALSE, license |-> NULL]}

RECURSIVE SeqsUpTo(_, _)
SeqsUpTo(S, n) ==
    IF n = 0 THEN {<<>>}
    ELSE LET shorter == SeqsUpTo(S, n - 1)
         IN shorter \cup {Append(q, x) : q \in shorter, x \in S}

BadwordLists == {<<>>, <<<<"m", " ", "m">>>>}

InitInspectLicense ==
    /\ pc = "start"
    /\ ret = ""
    /\ results = <<>>
    /\ worst_result = RESULT_OK
    /\ errlog = <<>>
    /\ dbfile \in {DbFile(d) : d \in Databases} \cup {Unreadable}
    /\ licdb = JsonNull
    /\ reads = 0
    /\ tag = <<>>
    /\ badwords \in BadwordLists
    /\ peers \in SeqsUpTo(LicensePeers, MaxPeers)
    /\ idx = 0
    /\ locals = [good |-> 0, seen |-> 0]
    /\ KmodIdle
    /\ UpstreamIdle
    /\ MetadataIdle
    /\ InitIdle
    /\ WhitelistIdle

\* lines 323-342: the database must be there
InspectLicenseStart ==
    /\ pc = "start"
    /\ IF ~dbfile.readable
       THEN \E rs \in {add_result(Sink, RESULT_BAD, NOT_WAIVABLE, HEADER_LICENSE,
                                  "missing_licensedb", About(0, ""))} :
               /\ results' = rs.results
               /\ worst_result' = rs.worst
               /\ ret' = "false"
               /\ pc' = "done"
               /\ idx' = idx
       ELSE /\ pc' = "peers"
            /\ idx' = 1
            /\ UNCHANGED <<results, worst_result, ret>>
    /\ UNCHANGED <<errlog, dbfile, licdb, reads, tag, badwords, peers, locals>>
    /\ UNCHANGED kmodVars
    /\ UNCHANGED upstreamVars
    /\ UNCHANGED metadataVars
    /\ UNCHANGED initVars
    /\ UNCHANGED whitelistVars

\* lines 350-358: one round of the loop over the peers
InspectLicensePeer ==
    /\ pc = "peers"
    /\ idx <= Len(peers)
    /\ IF ~peers[idx].after_rpm
       THEN /\ idx' = idx + 1
            /\ UNCHANGED <<pc, ret, results, worst_result, licdb, reads, locals>>
       ELSE \E r \in {check_peer_license(Sink, licdb, dbfile, badwords,
                                         peers[idx].license, idx)} :
               /\ results' = r.sink.results
               /\ worst_result' = r.sink.worst
               /\ licdb' = r.licdb
               /\ reads' = reads + r.reads
               /\ IF r.fault # ""
                  THEN /\ ret' = r.fault
                       /\ pc' = "done"
                       /\ UNCHANGED <<idx, locals>>
                  ELSE /\ locals' = [good |-> locals.good + r.ret,
                                     seen |-> locals.seen + 1]
                       /\ idx' = idx + 1
                       /\ UNCHANGED <<pc, ret>>
    /\ UNCHANGED <<errlog, dbfile, tag, badwords, peers>>
    /\ UNCHANGED kmodVars
    /\ UNCHANGED upstreamVars
    /\ UNCHANGED metadataVars
    /\ UNCHANGED initVars
    /\ UNCHANGED whitelistVars

\* lines 360-370: clean up, decide and report
InspectLicenseFinish ==
    /\ pc = "peers"
    /\ idx > Len(peers)
    /\ licdb' = free_licensedb(licdb)
    /\ LET result == (locals.good = locals.seen)
           rs == IF result
                 THEN add_result(Sink, RESULT_OK, NOT_WAIVABLE, HEADER_LICENSE, "ok", About(0, ""))
                 ELSE Sink
       IN /\ results' = rs.results
          /\ worst_result' = rs.worst
          /\ ret' = IF result THEN "true" ELSE "false"
    /\ pc' = "done"
    /\ UNCHANGED <<errlog, dbfile, reads, tag, badwords, peers, idx, locals>>
    /\ UNCHANGED kmodVars
    /\ UNCHANGED upstreamVars
    /\ UNCHANGED metadataVars
    /\ UNCHANGED initVars
    /\ UNCHANGED whitelistVars

NextInspectLicense ==
    \/ InspectLicenseStart
    \/ InspectLicensePeer
    \/ InspectLicenseFinish

SpecInspectLicense == InitInspectLicense /\ [][NextInspectLicense]_vars

----------------------------------------------------------------------------
(* One process calling is_valid_license, free_licensedb and inspect_license *)

MaxReads == 3

\* the expressions and the peers of the calls
CallTags == {<<>>, S_M, <<"(">>}
RunPeers ==
    {<<>>}
    \cup {<<[after_rpm |-> TRUE, license |-> l]>> : l \in {S_M, <<"(">>}}
    \cup {<<[after_rpm |-> TRUE, license |-> S_M], [after_rpm |-> TRUE, license |-> S_M_M]>>}

InitLicenseCalls ==
    /\ pc = "idle"
    /\ ret = ""
    /\ results = <<>>
    /\ worst_result = RESULT_OK
    /\ errlog = <<>>
    /\ dbfile \in {Unreadable, DbFile(<<>>), DbFile(<<Entry(S_MM, S_M, S_M_M, S_Yes)>>)}
    /\ licdb = JsonNull
    /\ reads = 0
    /\ tag = <<>>
    /\ badwords = <<>>
    /\ peers = <<>>
    /\ idx = 0
    /\ locals = [good |-> 0, seen |-> 0]
    /\ KmodIdle
    /\ UpstreamIdle
    /\ MetadataIdle
    /\ InitIdle
    /\ WhitelistIdle

\* a call of is_valid_license(licensedb, tag)
IsValidLicenseCall ==
    /\ pc = "idle"
    /\ reads < MaxReads
    /\ \E t \in CallTags :
       \E r \in {is_valid_license(licdb, dbfile, t)} :
          /\ tag' = t
          /\ ret' = r.out
          /\ licdb' = r.licdb
          /\ reads' = reads + r.reads
          /\ pc' = IF r.out \in {"abort", "segv"} THEN "done" ELSE "idle"
    /\ UNCHANGED <<results, worst_result, errlog, dbfile, badwords, peers, idx, locals>>
    /\ UNCHANGED kmodVars
    /\ UNCHANGED upstreamVars
    /\ UNCHANGED metadataVars
    /\ UNCHANGED initVars
    /\ UNCHANGED whitelistVars

\* a call of free_licensedb()
FreeLicensedbCall ==
    /\ pc = "idle"
    /\ licdb' = free_licensedb(licdb)
    /\ ret' = ""
    /\ UNCHANGED <<pc, results, worst_result, errlog, dbfile, reads, tag, badwords,
                   peers, idx, locals>>
    /\ UNCHANGED kmodVars
    /\ UNCHANGED upstreamVars
    /\ UNCHANGED metadataVars
    /\ UNCHANGED initVars
    /\ UNCHANGED whitelistVars

\* inspect_license(ri) is entered, on a fresh struct rpminspect
InspectLicenseBegin ==
    /\ pc = "idle"
    /\ reads < MaxReads
    /\ peers' \in RunPeers
    /\ results' = <<>>
    /\ worst_result' = RESULT_OK
    /\ ret' = ""
    /\ idx' = 0
    /\ locals' = [good |-> 0, seen |-> 0]
    /\ pc' = "start"
    /\ UNCHANGED <<errlog, dbfile, licdb, reads, tag, badwords>>
    /\ UNCHANGED kmodVars
    /\ UNCHANGED upstreamVars
    /\ UNCHANGED metadataVars
    /\ UNCHANGED initVars
    /\ UNCHANGED whitelistVars

\* inspect_license has returned to its caller
InspectLicenseReturn ==
    /\ pc = "done"
    /\ ret \in {"true", "false"}
    /\ pc' = "idle"
    /\ UNCHANGED <<ret, results, worst_result, errlog, idx, locals>>
    /\ UNCHANGED licenseVars
    /\ UNCHANGED kmodVars
    /\ UNCHANGED upstreamVars
    /\ UNCHANGED metadataVars
    /\ UNCHANGED initVars
    /\ UNCHANGED whitelistVars

NextLicenseCalls ==
    \/ IsValidLicenseCall
    \/ FreeLicensedbCall
    \/ InspectLicenseBegin
    \/ InspectLicenseStart
    \/ InspectLicensePeer
    \/ InspectLicenseFinish
    \/ InspectLicenseReturn

SpecLicenseCalls == InitLicenseCalls /\ [][NextLicenseCalls]_vars

----------------------------------------------------------------------------
(* inspect_kmod *)

MaxFiles == 2

\* the members of a string_list_t, in the order of the list
RECURSIVE SetToSeq(_)
SetToSeq(S) ==
    IF S = {} THEN <<>>
    ELSE LET x == CHOOSE y \in S : TRUE
         IN <<x>> \o SetToSeq(S \ {x})

\* compare_module_parameters(before, after, &lost, &gain)
compare_module_parameters(before, after) ==
    [lost |-> SetToSeq(before.parm \ after.parm),
     gain |-> SetToSeq(after.parm \ before.parm),
     result |-> (before.parm \ after.parm) = {}]

\* compare_module_dependencies(before, after, &lost, &gain)
compare_module_dependencies(before, after) ==
    [lost |-> SetToSeq(before.depends \ after.depends),
     gain |-> SetToSeq(after.depends \ before.depends),
     result |-> (before.depends \ after.depends) = {}]

ReportFirstOnly(rs, list, sev, waiver, msg, n) ==
    IF list = <<>> THEN rs
    ELSE add_result(rs, sev, waiver, HEADER_KMOD, msg, About(n, Head(list)))

\* one add_result per entry of list (the TAILQ_FOREACH loops of kmod_driver)
RECURSIVE ReportEach(_, _, _, _, _, _)
ReportEach(rs, list, sev, waiver, msg, n) ==
    IF list = <<>> THEN rs
    ELSE ReportEach(add_result(rs, sev, waiver, HEADER_KMOD, msg, About(n, Head(list))),
                    Tail(list), sev, waiver, msg, n)

\* one add_result per module of modules, about the alias
RECURSIVE ReportModules(_, _, _, _, _, _, _)
ReportModules(rs, modules, sev, waiver, msg, alias, n) ==
    IF modules = <<>> THEN rs
    ELSE ReportModules(add_result(rs, sev, waiver, HEADER_KMOD, msg, About(n, alias)),
                       Tail(modules), sev, waiver, msg, alias, n)

\* lost_alias(alias, before_modules, after_modules, ri), reading the statics
lost_alias(rs, sev, waiver, alias, before_modules, after_modules, n) ==
    LET rs1 == ReportModules(rs, before_modules, sev, waiver, "lost_alias", alias, n)
    IN IF after_modules # <<>>
       THEN ReportModules(rs1, after_modules, sev, waiver, "gained_alias", alias, n)
       ELSE rs1

\* compare_module_aliases over the alias keys left: the callback gets, for each
\* key, the before modules that lost it and the after modules that gained it
RECURSIVE VisitAliases(_, _, _, _, _, _, _)
VisitAliases(rs, keys, sev, waiver, before, after, n) ==
    IF keys = <<>> THEN rs
    ELSE LET alias == Head(keys)
             losers == IF alias \in before.alias \ after.alias THEN <<"before">> ELSE <<>>
             gainers == IF alias \in after.alias \ before.alias THEN <<"after">> ELSE <<>>
         IN VisitAliases(lost_alias(rs, sev, waiver, alias, losers, gainers, n),
                         Tail(keys), sev, waiver, before, after, n)

\* compare_module_aliases(beforealiases, afteraliases, lost_alias, ri)
compare_module_aliases(rs, sev, waiver, before, after, n) ==
    [sink |-> VisitAliases(rs,
                  SetToSeq((before.alias \ after.alias) \cup (after.alias \ before.alias)),
                  sev, waiver, before, after, n),
     result |-> (before.alias \ after.alias) = {}]

KmodCompareGainAsLost(rs, sev, waiver, f, n) ==
    LET p == compare_module_parameters(f.before_info, f.after_info)
        rs1 == ReportEach(rs, p.lost, sev, waiver, "removes_parameter", n)
        rs2 == ReportEach(rs1, p.gain, sev, waiver, "adds_parameter", n)
        d == compare_module_dependencies(f.before_info, f.after_info)
        rs3 == ReportEach(rs2, d.lost, sev, waiver, "removes_dependency", n)
        rs4 == ReportEach(rs3, d.gain, RESULT_INFO, NOT_WAIVABLE, "adds_dependency", n)
        a == compare_module_aliases(rs4, sev, waiver, f.before_info, f.after_info, n)
    IN [ret |-> IF p.result /\ d.result /\ a.result THEN "true" ELSE "false",
        sink |-> a.sink, sev |-> sev, waiver |-> waiver, err |-> <<>>]

\* lines 180-249: the comparisons and their reports, with the statics sev, waiver
KmodCompare(rs, sev, waiver, f, n) ==
    LET p == compare_module_parameters(f.before_info, f.after_info)
        rs1 == ReportEach(rs, p.lost, sev, waiver, "removes_parameter", n)
        rs2 == ReportEach(rs1, p.gain, RESULT_INFO, NOT_WAIVABLE, "adds_parameter", n)
        d == compare_module_dependencies(f.before_info, f.after_info)
        rs3 == ReportEach(rs2, d.lost, sev, waiver, "removes_dependency", n)
        rs4 == ReportEach(rs3, d.gain, sev, waiver, "adds_dependency", n)
        a == compare_module_aliases(rs4, sev, waiver, f.before_info, f.after_info, n)
    IN [ret |-> IF p.result /\ d.result /\ a.result THEN "true" ELSE "false",
        sink |-> a.sink, sev |-> sev, waiver |-> waiver, err |-> <<>>]

\* lines 109-123: the statics after the name and version comparison
KmodSeverity(sev, waiver, f) ==
    IF strcmp0(f.before_name, f.after_name) /\ strcmp0(f.after_ver, f.before_ver)
    THEN [sev |-> RESULT_VERIFY, waiver |-> WAIVABLE_BY_ANYONE]
    ELSE [sev |-> sev, waiver |-> waiver]

GetInfoFailureSkipped(set, n, msg) == set

\* lines 162-166 and 171-175: the message on stderr, the cleanup, return false
GetInfoFailure(set, n, msg) ==
    [set EXCEPT !.ret = "false", !.err = <<About(n, msg)>>]

\* kmod_driver(ri, file) for the file numbered n, with the statics sev and
\* waiver as they are on entry: outcome, sink, statics and stderr lines
kmod_driver(rs, sev, waiver, f, n) ==
    LET skip == [ret |-> "true", sink |-> rs, sev |-> sev, waiver |-> waiver,
                 err |-> <<>>]
    IN  IF f.is_source THEN skip
        ELSE IF ~f.is_reg THEN skip
        ELSE IF f.in_debug_path THEN skip
        ELSE IF ~f.in_modules_dir \/ ~f.has_module_ext THEN skip
        ELSE IF ~f.has_peer THEN [skip EXCEPT !.ret = "segv"]
        ELSE LET w == KmodSeverity(sev, waiver, f)
                 set == [skip EXCEPT !.sev = w.sev, !.waiver = w.waiver]
             IN IF ~f.before_is_kmod THEN set
                ELSE IF ~f.after_is_kmod THEN set
                ELSE IF ~f.before_info_ok
                THEN GetInfoFailure(set, n, "error reading before kernel module")
                ELSE IF ~f.after_info_ok
                THEN GetInfoFailure(set, n, "error reading after kernel module")
                ELSE KmodCompare(rs, w.sev, w.waiver, f, n)

\* what kmod_module_get_info tells about a module
NoInfo == [parm |-> {}, depends |-> {}, alias |-> {}]
Infos == {NoInfo,
          [parm |-> {"debug", "level"}, depends |-> {"d"}, alias |-> {"a"}],
          [parm |-> {"level", "trace"}, depends |-> {"e"}, alias |-> {"a", "b"}]}

\* a module file with a peer, same package name and version, nothing changed
ModuleFile ==
    [is_source |-> FALSE, is_reg |-> TRUE, in_debug_path |-> FALSE,
     in_modules_dir |-> TRUE, has_module_ext |-> TRUE, has_peer |-> TRUE,
     before_name |-> "kmod", after_name |-> "kmod",
     before_ver |-> "1", after_ver |-> "1",
     before_is_kmod |-> TRUE, after_is_kmod |-> TRUE,
     before_info_ok |-> TRUE, after_info_ok |-> TRUE,
     before_info |-> NoInfo, after_info |-> NoInfo]

SkippedFiles ==
    {[ModuleFile EXCEPT !.is_source = TRUE],
     [ModuleFile EXCEPT !.is_reg = FALSE],
     [ModuleFile EXCEPT !.in_debug_path = TRUE],
     [ModuleFile EXCEPT !.in_modules_dir = FALSE],
     [ModuleFile EXCEPT !.has_module_ext = FALSE]}

AfterPackages == {<<"kmod", "1">>, <<"kmod-ng", "1">>, <<"kmod", "2">>}

UnreadModules ==
    {[ModuleFile EXCEPT !.before_is_kmod = FALSE],
     [ModuleFile EXCEPT !.after_is_kmod = FALSE],
     [ModuleFile EXCEPT !.before_info_ok = FALSE],
     [ModuleFile EXCEPT !.after_info_ok = FALSE]}

ReadModules ==
    {[ModuleFile EXCEPT !.before_info = b, !.after_info = a] : b \in Infos, a \in Infos}

KmodFiles ==
    SkippedFiles
    \cup {[ModuleFile EXCEPT !.has_peer = FALSE]}
    \cup {[f EXCEPT !.after_name = pkg[1], !.after_ver = pkg[2]] :
             f \in UnreadModules \cup ReadModules, pkg \in AfterPackages}

LicenseIdle ==
    /\ dbfile = Unreadable
    /\ licdb = JsonNull
    /\ reads = 0
    /\ tag = <<>>
    /\ badwords = <<>>
    /\ peers = <<>>

InitKmod ==
    /\ pc = "files"
    /\ ret = ""
    /\ results = <<>>
    /\ worst_result = RESULT_OK
    /\ errlog = <<>>
    /\ LicenseIdle
    /\ UpstreamIdle
    /\ idx = 1
    /\ locals = [result |-> TRUE]
    /\ files = <<>>
    /\ kmod_sev = RESULT_INFO
    /\ kmod_waiver = NOT_WAIVABLE
    /\ MetadataIdle
    /\ InitIdle
    /\ WhitelistIdle

\* foreach_peer_file: kmod_driver on the next file of the after build; files
\* keeps the files handled so far in this run
InspectKmodFile ==
    /\ pc = "files"
    /\ Len(files) < MaxFiles
    /\ \E f \in KmodFiles :
       \E r \in {kmod_driver(Sink, kmod_sev, kmod_waiver, f, idx)} :
          /\ files' = Append(files, f)
          /\ results' = r.sink.results
          /\ worst_result' = r.sink.worst
          /\ kmod_sev' = r.sev
          /\ kmod_waiver' = r.waiver
          /\ errlog' = errlog \o r.err
          /\ IF r.ret = "segv"
             THEN /\ ret' = "segv"
                  /\ pc' = "done"
                  /\ UNCHANGED <<idx, locals>>
             ELSE /\ locals' = [result |-> locals.result /\ r.ret = "true"]
                  /\ idx' = idx + 1
                  /\ UNCHANGED <<pc, ret>>
    /\ UNCHANGED licenseVars
    /\ UNCHANGED upstreamVars
    /\ UNCHANGED metadataVars
    /\ UNCHANGED initVars
    /\ UNCHANGED whitelistVars

\* inspect_kmod, lines 263-268, once foreach_peer_file has visited every file
InspectKmodFinish ==
    /\ pc = "files"
    /\ LET rs == IF locals.result
                 THEN add_result(Sink, RESULT_OK, NOT_WAIVABLE, HEADER_KMOD, "ok",
                                 About(0, ""))
                 ELSE Sink
       IN /\ results' = rs.results
          /\ worst_result' = rs.worst
    /\ ret' = IF locals.result THEN "true" ELSE "false"
    /\ pc' = "done"
    /\ UNCHANGED <<errlog, idx, locals, files, kmod_sev, kmod_waiver>>
    /\ UNCHANGED licenseVars
    /\ UNCHANGED upstreamVars
    /\ UNCHANGED metadataVars
    /\ UNCHANGED initVars
    /\ UNCHANGED whitelistVars

\* inspect_kmod called again in the same process, on a fresh struct rpminspect
InspectKmodAgain ==
    /\ pc = "done"
    /\ ret \in {"true", "false"}
    /\ pc' = "files"
    /\ ret' = ""
    /\ results' = <<>>
    /\ worst_result' = RESULT_OK
    /\ errlog' = <<>>
    /\ idx' = 1
    /\ locals' = [result |-> TRUE]
    /\ files' = <<>>
    /\ UNCHANGED <<kmod_sev, kmod_waiver>>
    /\ UNCHANGED licenseVars
    /\ UNCHANGED upstreamVars
    /\ UNCHANGED metadataVars
    /\ UNCHANGED initVars
    /\ UNCHANGED whitelistVars

NextKmod ==
    \/ InspectKmodFile
    \/ InspectKmodFinish
    \/ InspectKmodAgain

SpecKmod == InitKmod /\ [][NextKmod]_vars

----------------------------------------------------------------------------
(* inspect_upstream *)

MaxSrcFiles == 2

\* init_source(file): reads the Source tag of the file's package header hdr
init_source(src, hdr) ==
    IF ~hdr.has_source_tag
    THEN [ret |-> FALSE, source |-> src]
    ELSE [ret |-> TRUE, source |-> [state |-> "live", items |-> hdr.sources]]

\* is_source(file), with the static source as it is on entry
is_source(src, file, hdr) ==
    LET i == IF src.state = "null"
             THEN init_source(src, hdr)
             ELSE [ret |-> TRUE, source |-> src]
    IN  IF ~i.ret
        THEN [ret |-> FALSE, source |-> i.source]
        ELSE [ret |-> file.name \in i.source.items, source |-> i.source]

DigestsAlwaysDiffer(file) == TRUE

\* line 130: strcmp(before_sum, after_sum)
DigestsDiffer(file) == ~strcmp0(file.peer_sum, file.sum)

\* a driver whose INFO findings do not fail the inspection
upstream_driverInfoPasses(rs, src, sev, waiver, file, hdr) ==
    LET s == is_source(src, file, hdr)
    IN  IF ~s.ret
        THEN [ret |-> TRUE, sink |-> rs, source |-> s.source]
        ELSE IF ~file.has_peer
        THEN [ret |-> sev = RESULT_INFO,
              sink |-> add_result(rs, sev, waiver, HEADER_UPSTREAM, "new",
                                  About(0, file.name)),
              source |-> s.source]
        ELSE IF DigestsDiffer(file)
        THEN [ret |-> sev = RESULT_INFO,
              sink |-> add_result(rs, sev, waiver, HEADER_UPSTREAM, "changed",
                                  About(0, file.name)),
              source |-> s.source]
        ELSE [ret |-> TRUE, sink |-> rs, source |-> s.source]

\* upstream_driver(ri, file), with the statics as they are on entry
upstream_driver(rs, src, sev, waiver, file, hdr) ==
    LET s == is_source(src, file, hdr)
    IN  IF ~s.ret
        THEN [ret |-> TRUE, sink |-> rs, source |-> s.source]
        ELSE IF ~file.has_peer
        THEN [ret |-> FALSE,
              sink |-> add_result(rs, sev, waiver, HEADER_UPSTREAM, "new",
                                  About(0, file.name)),
              source |-> s.source]
        ELSE IF DigestsDiffer(file)
        THEN [ret |-> FALSE,
              sink |-> add_result(rs, sev, waiver, HEADER_UPSTREAM, "changed",
                                  About(0, file.name)),
              source |-> s.source]
        ELSE [ret |-> TRUE, sink |-> rs, source |-> s.source]

\* lines 174-194: the versions of the first source package with a spec file
RECURSIVE VersionLoop(_, _)
VersionLoop(ps, i) ==
    IF i > Len(ps) THEN [fault |-> "abort", bv |-> "", av |-> ""]
    ELSE IF ~ps[i].is_source THEN VersionLoop(ps, i + 1)
    ELSE LET specs == SelectSeq(ps[i].after_files, LAMBDA f : f.is_spec)
         IN IF specs = <<>> THEN VersionLoop(ps, i + 1)
            ELSE IF ~specs[1].has_peer
            THEN [fault |-> "segv", bv |-> "", av |-> ""]
            ELSE [fault |-> "", bv |-> ps[i].bv, av |-> ps[i].av]

\* lines 228-238: one finding per before file without a peer
RECURSIVE RemovedLoop(_, _, _, _)
RemovedLoop(st, before_files, sev, waiver) ==
    IF before_files = <<>> THEN st
    ELSE LET file == Head(before_files)
         IN IF ~file.has_peer
            THEN RemovedLoop([sink |-> add_result(st.sink, sev, waiver, HEADER_UPSTREAM,
                                                  "removed", About(0, file.name)),
                              result |-> FALSE],
                             Tail(before_files), sev, waiver)
            ELSE RemovedLoop(st, Tail(before_files), sev, waiver)

\* list_free(source, free): the list is released, the pointer keeps its value
list_free(src) ==
    IF src.state = "live" THEN [src EXCEPT !.state = "freed"] ELSE src

\* the members of a source package: the spec file and MaxSrcFiles other names
SpecName == "x.spec"
SrcNames == SubSeq(<<"a.tar", "p.patch", "b.tar">>, 1, MaxSrcFiles)
AllNames == SrcNames \o <<SpecName>>
NameSet == {AllNames[i] : i \in 1..Len(AllNames)}

\* what became of a member between the before and the after build
Fates == {"absent", "removed", "new", "same", "changed"}

AfterFiles(fate) ==
    LET names == SelectSeq(AllNames, LAMBDA n : fate[n] \in {"new", "same", "changed"})
    IN [k \in 1..Len(names) |->
           [name |-> names[k], is_spec |-> names[k] = SpecName,
            has_peer |-> fate[names[k]] # "new",
            sum |-> IF fate[names[k]] = "changed" THEN "d2" ELSE "d1",
            peer_sum |-> IF fate[names[k]] = "new" THEN "" ELSE "d1"]]

BeforeFiles(fate) ==
    LET names == SelectSeq(AllNames, LAMBDA n : fate[n] \in {"removed", "same", "changed"})
    IN [k \in 1..Len(names) |->
           [name |-> names[k], has_peer |-> fate[names[k]] # "removed"]]

SourcePackage(fate, has_tag, sources, av) ==
    [is_source |-> TRUE, bv |-> "1.0", av |-> av,
     has_source_tag |-> has_tag, sources |-> sources,
     after_files |-> AfterFiles(fate), before_files |-> BeforeFiles(fate)]

BinaryPackage ==
    [is_source |-> FALSE, bv |-> "1.0", av |-> "1.0",
     has_source_tag |-> FALSE, sources |-> {},
     after_files |-> <<>>, before_files |-> <<>>]

SourceTags ==
    {<<FALSE, {}>>}
    \cup {<<TRUE, d>> : d \in (SUBSET {SrcNames[i] : i \in 1..Len(SrcNames)}) \ {{}}}

SourcePackages ==
    {SourcePackage(fate, t[1], t[2], av) :
        fate \in [NameSet -> Fates], t \in SourceTags, av \in {"1.0", "1.1"}}

Builds ==
    {<<>>, <<BinaryPackage>>}
    \cup {<<p>> : p \in SourcePackages}
    \cup {<<BinaryPackage, p>> : p \in SourcePackages}
    \cup {<<p, BinaryPackage>> : p \in SourcePackages}

InitUpstream ==
    /\ pc = "start"
    /\ ret = ""
    /\ results = <<>>
    /\ worst_result = RESULT_OK
    /\ errlog = <<>>
    /\ LicenseIdle
    /\ KmodIdle
    /\ idx = 1
    /\ locals = [result |-> TRUE, peer |-> 0]
    /\ build \in Builds
    /\ source = SourceNull
    /\ up_sev = RESULT_OK
    /\ up_waiver = NOT_WAIVABLE
    /\ MetadataIdle
    /\ InitIdle
    /\ WhitelistIdle

\* inspect_upstream, lines 163-207
InspectUpstreamStart ==
    /\ pc = "start"
    /\ \E v \in {VersionLoop(build, 1)} :
          IF v.fault # ""
          THEN /\ ret' = v.fault
               /\ pc' = "done"
               /\ UNCHANGED <<locals, up_sev, up_waiver>>
          ELSE /\ up_sev' = IF ~strcmp0(v.bv, v.av) THEN RESULT_INFO ELSE RESULT_VERIFY
               /\ up_waiver' = IF ~strcmp0(v.bv, v.av)
                               THEN NOT_WAIVABLE ELSE WAIVABLE_BY_ANYONE
               /\ locals' = [result |-> TRUE, peer |-> 1]
               /\ pc' = "peer"
               /\ UNCHANGED ret
    /\ UNCHANGED <<results, worst_result, errlog, idx, build, source>>
    /\ UNCHANGED licenseVars
    /\ UNCHANGED kmodVars
    /\ UNCHANGED metadataVars
    /\ UNCHANGED initVars
    /\ UNCHANGED whitelistVars

\* lines 209-218: the next peer of the main loop
UpstreamPeer ==
    /\ pc = "peer"
    /\ IF locals.peer > Len(build)
       THEN /\ pc' = "finish"
            /\ UNCHANGED <<locals, idx>>
       ELSE IF ~build[locals.peer].is_source \/ build[locals.peer].after_files = <<>>
       THEN /\ locals' = [locals EXCEPT !.peer = @ + 1]
            /\ UNCHANGED <<pc, idx>>
       ELSE /\ pc' = "files"
            /\ idx' = 1
            /\ UNCHANGED locals
    /\ UNCHANGED <<ret, results, worst_result, errlog>>
    /\ UNCHANGED upstreamVars
    /\ UNCHANGED licenseVars
    /\ UNCHANGED kmodVars
    /\ UNCHANGED metadataVars
    /\ UNCHANGED initVars
    /\ UNCHANGED whitelistVars

\* lines 221-225: upstream_driver on the next after file of the source package
UpstreamDriver ==
    /\ pc = "files"
    /\ idx <= Len(build[locals.peer].after_files)
    /\ \E r \in {upstream_driver(Sink, source, up_sev, up_waiver,
                                 build[locals.peer].after_files[idx],
                                 build[locals.peer])} :
          /\ results' = r.sink.results
          /\ worst_result' = r.sink.worst
          /\ source' = r.source
          /\ locals' = [locals EXCEPT !.result = @ /\ r.ret]
    /\ idx' = idx + 1
    /\ UNCHANGED <<pc, ret, errlog, build, up_sev, up_waiver>>
    /\ UNCHANGED licenseVars
    /\ UNCHANGED kmodVars
    /\ UNCHANGED metadataVars
    /\ UNCHANGED initVars
    /\ UNCHANGED whitelistVars

\* lines 228-238: the removed members, after the last after file
UpstreamRemoved ==
    /\ pc = "files"
    /\ idx > Len(build[locals.peer].after_files)
    /\ \E r \in {RemovedLoop([sink |-> Sink, result |-> locals.result],
                             build[locals.peer].before_files, up_sev, up_waiver)} :
          /\ results' = r.sink.results
          /\ worst_result' = r.sink.worst
          /\ locals' = [result |-> r.result, peer |-> locals.peer + 1]
    /\ pc' = "peer"
    /\ UNCHANGED <<ret, errlog, idx>>
    /\ UNCHANGED upstreamVars
    /\ UNCHANGED licenseVars
    /\ UNCHANGED kmodVars
    /\ UNCHANGED metadataVars
    /\ UNCHANGED initVars
    /\ UNCHANGED whitelistVars

\* lines 241-249
InspectUpstreamFinish ==
    /\ pc = "finish"
    /\ LET rs == IF locals.result
                 THEN add_result(Sink, RESULT_OK, NOT_WAIVABLE, HEADER_UPSTREAM, "ok",
                                 About(0, ""))
                 ELSE Sink
       IN /\ results' = rs.results
          /\ worst_result' = rs.worst
    /\ source' = list_free(source)
    /\ ret' = IF locals.result THEN "true" ELSE "false"
    /\ pc' = "done"
    /\ UNCHANGED <<errlog, idx, locals, build, up_sev, up_waiver>>
    /\ UNCHANGED licenseVars
    /\ UNCHANGED kmodVars
    /\ UNCHANGED metadataVars
    /\ UNCHANGED initVars
    /\ UNCHANGED whitelistVars

NextUpstream ==
    \/ InspectUpstreamStart
    \/ UpstreamPeer
    \/ UpstreamDriver
    \/ UpstreamRemoved
    \/ InspectUpstreamFinish

SpecUpstream == InitUpstream /\ [][NextUpstream]_vars

----------------------------------------------------------------------------
(* One process running inspect_upstream again and again *)

\* the builds of the runs after the first: none, a binary package, and
\* source packages with all, one or none of their members declared
LaterBuilds ==
    { <<>>,
      <<BinaryPackage>>,
      <<SourcePackage([n \in NameSet |-> "same"], TRUE,
                      {SrcNames[i] : i \in 1..Len(SrcNames)}, "1.0")>>,
      <<SourcePackage([n \in NameSet |-> IF n = SpecName THEN "same" ELSE "changed"],
                      TRUE, {SrcNames[1]}, "1.1")>>,
      <<SourcePackage([n \in NameSet |-> "same"], FALSE, {}, "1.0")>> }

InitUpstreamRuns == InitUpstream

\* the caller starts the next run on a fresh struct rpminspect; the statics
\* source, sev and waiver are what the run before left
InspectUpstreamAgain ==
    /\ pc = "done"
    /\ ret \in {"true", "false"}
    /\ build' \in LaterBuilds
    /\ pc' = "start"
    /\ ret' = ""
    /\ results' = <<>>
    /\ worst_result' = RESULT_OK
    /\ idx' = 1
    /\ locals' = [result |-> TRUE, peer |-> 0]
    /\ UNCHANGED <<errlog, source, up_sev, up_waiver>>
    /\ UNCHANGED licenseVars
    /\ UNCHANGED kmodVars
    /\ UNCHANGED metadataVars
    /\ UNCHANGED initVars
    /\ UNCHANGED whitelistVars

\* lines 80, 90: source points to the list an earlier run released, and
\* TAILQ_FOREACH reads freed memory.  UpstreamDriver is the outcome where
\* the memory still holds the old list, this one the outcome where it does
\* not.
UpstreamDriverFreed ==
    /\ pc = "files"
    /\ idx <= Len(build[locals.peer].after_files)
    /\ source.state = "freed"
    /\ ret' = "segv"
    /\ pc' = "done"
    /\ UNCHANGED <<results, worst_result, errlog, idx, locals>>
    /\ UNCHANGED upstreamVars
    /\ UNCHANGED licenseVars
    /\ UNCHANGED kmodVars
    /\ UNCHANGED metadataVars
    /\ UNCHANGED initVars
    /\ UNCHANGED whitelistVars

\* line 247: list_free on the list an earlier run released frees it a second
\* time.  InspectUpstreamFinish is the outcome where the allocator lets that
\* pass, this one the outcome where it aborts.
InspectUpstreamFinishFreed ==
    /\ pc = "finish"
    /\ source.state = "freed"
    /\ LET rs == IF locals.result
                 THEN add_result(Sink, RESULT_OK, NOT_WAIVABLE, HEADER_UPSTREAM, "ok",
                                 About(0, ""))
                 ELSE Sink
       IN /\ results' = rs.results
          /\ worst_result' = rs.worst
    /\ ret' = "abort"
    /\ pc' = "done"
    /\ UNCHANGED <<errlog, idx, locals>>
    /\ UNCHANGED upstreamVars
    /\ UNCHANGED licenseVars
    /\ UNCHANGED kmodVars
    /\ UNCHANGED metadataVars
    /\ UNCHANGED initVars
    /\ UNCHANGED whitelistVars

NextUpstreamRuns ==
    \/ InspectUpstreamStart
    \/ UpstreamPeer
    \/ UpstreamDriver
    \/ UpstreamDriverFreed
    \/ UpstreamRemoved
    \/ InspectUpstreamFinish
    \/ InspectUpstreamFinishFreed
    \/ InspectUpstreamAgain

SpecUpstreamRuns == InitUpstreamRuns /\ [][NextUpstreamRuns]_vars

----------------------------------------------------------------------------
(* inspect_metadata *)

\* strsuffix(s, suffix)
strsuffix(s, suffix) ==
    /\ Len(s) >= Len(suffix)
    /\ SubSeq(s, Len(s) - Len(suffix) + 1, Len(s)) = suffix

\* the state of a valid_peers call: the sink, ret, and "segv" once it crashed
Checking(rs) == [sink |-> rs, ret |-> TRUE, fault |-> ""]

FailedKeepingRet(st, sev, waiver, msg, n) ==
    [st EXCEPT !.sink = add_result(@, sev, waiver, HEADER_METADATA, msg, About(n, ""))]

\* add_result and ret = false, as every failing check does
Failed(st, sev, waiver, msg, n) ==
    [st EXCEPT !.sink = add_result(@, sev, waiver, HEADER_METADATA, msg, About(n, "")),
               !.ret = FALSE]

VendorCheckUnsetFails(st, cfg_vendor, after, n) ==
    IF cfg_vendor = NULL
    THEN Failed(st, RESULT_INFO, NOT_WAIVABLE, "vendor_unset", n)
    ELSE IF after.vendor # NULL /\ ~strcmp0(after.vendor, cfg_vendor)
    THEN Failed(st, RESULT_BAD, NOT_WAIVABLE, "vendor_mismatch", n)
    ELSE st

\* lines 44-57: the vendor of the after package against ri->vendor
VendorCheck(st, cfg_vendor, after, n) ==
    IF cfg_vendor = NULL
    THEN [st EXCEPT !.sink = add_result(@, RESULT_INFO, NOT_WAIVABLE, HEADER_METADATA,
                                        "vendor_unset", About(n, ""))]
    ELSE IF after.vendor # NULL /\ ~strcmp0(after.vendor, cfg_vendor)
    THEN Failed(st, RESULT_BAD, NOT_WAIVABLE, "vendor_mismatch", n)
    ELSE st

\* lines 59-78: the build host against ri->buildhost_subdomain
BuildhostCheck(st, subdomains, after, n) ==
    IF after.buildhost # NULL /\ ~subdomains.null
    THEN IF \E i \in 1..Len(subdomains.items) :
                strsuffix(after.buildhost, subdomains.items[i])
         THEN st
         ELSE Failed(st, RESULT_BAD, NOT_WAIVABLE, "buildhost", n)
    ELSE st

\* lines 80-102: forbidden words in the summary, then in the description
BadwordChecks(st, words, after, n) ==
    LET st1 == IF after.summary # NULL /\ has_bad_word(after.summary, words)
               THEN Failed(st, RESULT_BAD, NOT_WAIVABLE, "summary_badword", n)
               ELSE st
    IN  IF after.description # NULL /\ has_bad_word(after.description, words)
        THEN Failed(st1, RESULT_BAD, NOT_WAIVABLE, "description_badword", n)
        ELSE st1

VendorDriftChangedOnly(st, before, after, n) ==
    IF before.vendor # NULL /\ after.vendor # NULL
       /\ ~strcmp0(before.vendor, after.vendor)
    THEN Failed(st, RESULT_VERIFY, WAIVABLE_BY_ANYONE, "changed_vendor", n)
    ELSE st

\* lines 113-126: the vendor of the before package against the after one
VendorDrift(st, before, after, n) ==
    IF before.vendor = NULL /\ after.vendor # NULL
    THEN Failed(st, RESULT_VERIFY, WAIVABLE_BY_ANYONE, "gained_vendor", n)
    ELSE IF before.vendor # NULL /\ after.vendor = NULL
    THEN Failed(st, RESULT_VERIFY, WAIVABLE_BY_ANYONE, "lost_vendor", n)
    ELSE IF before.vendor # NULL /\ after.vendor # NULL
            /\ ~strcmp0(before.vendor, after.vendor)
    THEN Failed(st, RESULT_VERIFY, WAIVABLE_BY_ANYONE, "changed_vendor", n)
    ELSE st

\* lines 128-135 and 137-146: strcmp on the two values of a field, which
\* reads through the pointer also when the header has no such tag
FieldDrift(st, b, a, msg, n) ==
    IF st.fault # "" THEN st
    ELSE IF b = NULL \/ a = NULL THEN [st EXCEPT !.fault = "segv"]
    ELSE IF ~strcmp0(b, a)
    THEN Failed(st, RESULT_VERIFY, WAIVABLE_BY_ANYONE, msg, n)
    ELSE st

\* lines 106-147
DriftChecks(st, p, n) ==
    IF ~p.has_before THEN st
    ELSE FieldDrift(
             FieldDrift(VendorDrift(st, p.before, p.after, n),
                        p.before.summary, p.after.summary, "summary_drift", n),
             p.before.description, p.after.description, "description_drift", n)

\* valid_peers(ri, before_hdr, after_hdr) for the peer p numbered n
valid_peers(rs, cfg_vendor, subdomains, words, p, n) ==
    DriftChecks(
        BadwordChecks(
            BuildhostCheck(VendorCheck(Checking(rs), cfg_vendor, p.after, n),
                           subdomains, p.after, n),
            words, p.after, n),
        p, n)

\* header values
V_Acme == <<"A">>
V_Other == <<"B">>
GoodHost == <<"h", ".", "g">>
BadHost == <<"h", ".", "b">>
Subdomains == [null |-> FALSE, items |-> << <<".", "g">> >>]

Hdr(v, h, su, d) == [vendor |-> v, buildhost |-> h, summary |-> su, description |-> d]

MetaPeer(has_after, has_before, b, a) ==
    [after_rpm |-> has_after, has_before |-> has_before, before |-> b, after |-> a]

BaseHdr == Hdr(V_Acme, GoodHost, S_M, S_M)
NoHdr == Hdr(NULL, NULL, NULL, NULL)

Vendors == {NULL, V_Acme, V_Other}
Texts == {NULL, S_M, S_M_M}

\* the peers of ri->peers: the base peer and its variations, a field at a time,
\* then two and three drifting fields at once
MetadataPeers ==
    {MetaPeer(FALSE, TRUE, BaseHdr, NoHdr)}
    \cup {MetaPeer(TRUE, TRUE, [BaseHdr EXCEPT !.vendor = b], [BaseHdr EXCEPT !.vendor = a]) :
             b \in Vendors, a \in Vendors}
    \cup {MetaPeer(TRUE, TRUE, BaseHdr, [BaseHdr EXCEPT !.buildhost = h]) :
             h \in {NULL, BadHost}}
    \cup {MetaPeer(TRUE, TRUE, [BaseHdr EXCEPT !.summary = b], [BaseHdr EXCEPT !.summary = a]) :
             b \in Texts, a \in Texts}
    \cup {MetaPeer(TRUE, TRUE, [BaseHdr EXCEPT !.description = b],
                   [BaseHdr EXCEPT !.description = a]) : b \in Texts, a \in Texts}
    \cup {MetaPeer(TRUE, FALSE, NoHdr, a) :
             a \in {BaseHdr, NoHdr, Hdr(V_Other, BadHost, S_M_M, S_M_M)}}
    \cup {MetaPeer(TRUE, TRUE, BaseHdr, Hdr(v, GoodHost, su, d)) :
             v \in {V_Acme, V_Other}, su \in {S_M, S_MM}, d \in {S_M, S_MM}}

InitMetadata ==
    /\ pc = "peers"
    /\ ret = ""
    /\ results = <<>>
    /\ worst_result = RESULT_OK
    /\ errlog = <<>>
    /\ dbfile = Unreadable
    /\ licdb = JsonNull
    /\ reads = 0
    /\ tag = <<>>
    /\ badwords \in BadwordLists
    /\ peers = <<>>
    /\ idx = 1
    /\ locals = [good |-> TRUE]
    /\ KmodIdle
    /\ UpstreamIdle
    /\ vendor \in {NULL, V_Acme}
    /\ buildhost_subdomain \in {NoList, Subdomains}
    /\ InitIdle
    /\ WhitelistIdle

\* lines 172-181: the next peer of ri->peers; peers keeps the peers handled
InspectMetadataPeer ==
    /\ pc = "peers"
    /\ Len(peers) < MaxPeers
    /\ \E p \in MetadataPeers :
          /\ peers' = Append(peers, p)
          /\ IF ~p.after_rpm
             THEN UNCHANGED <<results, worst_result, locals, ret, pc>>
             ELSE \E r \in {valid_peers(Sink, vendor, buildhost_subdomain, badwords,
                                        p, idx)} :
                     /\ results' = r.sink.results
                     /\ worst_result' = r.sink.worst
                     /\ IF r.fault # ""
                        THEN /\ ret' = r.fault
                             /\ pc' = "done"
                             /\ UNCHANGED locals
                        ELSE /\ locals' = [good |-> locals.good /\ r.ret]
                             /\ UNCHANGED <<ret, pc>>
    /\ idx' = idx + 1
    /\ UNCHANGED <<errlog, dbfile, licdb, reads, tag, badwords>>
    /\ UNCHANGED kmodVars
    /\ UNCHANGED upstreamVars
    /\ UNCHANGED metadataVars
    /\ UNCHANGED initVars
    /\ UNCHANGED whitelistVars

\* lines 183-187
InspectMetadataFinish ==
    /\ pc = "peers"
    /\ LET rs == IF locals.good
                 THEN add_result(Sink, RESULT_OK, NOT_WAIVABLE, HEADER_METADATA, "ok",
                                 About(0, ""))
                 ELSE Sink
       IN /\ results' = rs.results
          /\ worst_result' = rs.worst
    /\ ret' = IF locals.good THEN "true" ELSE "false"
    /\ pc' = "done"
    /\ UNCHANGED <<errlog, idx, locals>>
    /\ UNCHANGED licenseVars
    /\ UNCHANGED kmodVars
    /\ UNCHANGED upstreamVars
    /\ UNCHANGED metadataVars
    /\ UNCHANGED initVars
    /\ UNCHANGED whitelistVars

NextMetadata ==
    \/ InspectMetadataPeer
    \/ InspectMetadataFinish

SpecMetadata == InitMetadata /\ [][NextMetadata]_vars

----------------------------------------------------------------------------
(* init_rpminspect *)

\* The members of struct rpminspect followed here are the ones of the main
\* file only (workdir, profiledir), three string and list settings read
\* before the regular expressions, the six regular expressions, the first
\* setting read after them, and the runtime members.  The other settings
\* are read the same way as licensedb or badwords.

\* init.c lines 831-832, 838, 859: the built-in defaults
DEFAULT_WORKDIR == <<"w">>
CFG_PROFILE_DIR == <<"e">>
LICENSE_DB_FILE == <<"l">>
DESKTOP_ENTRY_FILES_DIR == <<"d">>

\* the settings compiled by add_regex, in the order of lines 493-516
RegexKeys ==
    <<"elf_path_include", "elf_path_exclude", "manpage_path_include",
      "manpage_path_exclude", "xml_path_include", "xml_path_exclude">>

\* a regex_t pointer: NULL, a compiled expression, or a pointer to freed memory
NoRegex == [state |-> "null", pattern |-> NULL]

Compiled(pattern) == [state |-> "compiled", pattern |-> pattern]

Dangling(pattern) == [state |-> "freed", pattern |-> pattern]

\* the patterns of the configuration files below that regcomp rejects
BadPatterns == {<<"(">>, <<"[">>}

\* regcomp(3) with REG_EXTENDED, line 46: 0 on success
regcomp(pattern) == IF pattern \in BadPatterns THEN 1 ELSE 0

\* lines 28-62; regex_out is the pointer the caller passes by reference
add_regex(cfg, key, regex_out) ==
    LET pattern == cfg[key] IN
    IF pattern = NULL \/ pattern = <<>>
    THEN [ret |-> 0, regex |-> regex_out, err |-> <<>>]
    ELSE IF regcomp(pattern) # 0
         THEN [ret |-> -1, regex |-> Dangling(pattern), err |-> <<"regex">>]
         ELSE [ret |-> 0, regex |-> Compiled(pattern), err |-> <<>>]

\* lines 83-95: the strsep loop over " \t"; cur is the token being read
RECURSIVE Tokens(_, _, _)
Tokens(s, i, cur) ==
    LET token == IF cur = <<>> THEN <<>> ELSE <<cur>> IN
    IF i > Len(s) THEN token
    ELSE IF s[i] \in {" ", "\t"} THEN token \o Tokens(s, i + 1, <<>>)
    ELSE Tokens(s, i + 1, Append(cur, s[i]))

\* lines 64-99: the old list is freed, the new one is never NULL
parse_list(tmp) == [null |-> FALSE, items |-> Tokens(tmp, 1, <<>>)]

\* lines 343-461: the settings read before the regular expressions
ReadSettings(cfg, r, overlay) ==
    [r EXCEPT
        !.workdir = IF ~overlay /\ cfg.workdir # NULL THEN cfg.workdir ELSE @,
        !.profiledir = IF ~overlay /\ cfg.profiledir # NULL THEN cfg.profiledir ELSE @,
        !.licensedb = IF cfg.licensedb # NULL THEN cfg.licensedb ELSE @,
        !.badwords = IF cfg.badwords # NULL THEN parse_list(cfg.badwords) ELSE @,
        !.vendor = IF cfg.vendor # NULL THEN cfg.vendor ELSE @,
        !.buildhost_subdomain =
            IF cfg.buildhost_subdomain # NULL
            THEN parse_list(cfg.buildhost_subdomain) ELSE @]

\* lines 493-516: the first expression that does not compile ends the read
RECURSIVE ReadRegexes(_, _, _)
ReadRegexes(cfg, r, k) ==
    IF k > Len(RegexKeys) THEN [ret |-> 0, ri |-> r, err |-> <<>>]
    ELSE LET key == RegexKeys[k]
             a == add_regex(cfg, key, r[key])
             r2 == [r EXCEPT ![key] = a.regex]
         IN IF a.ret # 0 THEN [ret |-> -1, ri |-> r2, err |-> a.err]
            ELSE ReadRegexes(cfg, r2, k + 1)

\* lines 518-522: the first of the settings read after the expressions
ReadLaterSettings(cfg, r) ==
    [r EXCEPT !.desktop_entry_files_dir =
        IF cfg.desktop_entry_files_dir # NULL
        THEN cfg.desktop_entry_files_dir ELSE @]

\* lines 330-593
read_cfgfile(cfg, r, overlay) ==
    LET a == ReadRegexes(cfg, ReadSettings(cfg, r, overlay), 1) IN
    IF a.ret # 0 THEN a
    ELSE [a EXCEPT !.ri = ReadLaterSettings(cfg, a.ri)]

\* line 828: the struct after memset; the value 0 of an enumeration is "0"
Zeroed ==
    [cfgfile |-> FALSE, workdir |-> NULL, profiledir |-> NULL,
     licensedb |-> NULL, badwords |-> NoList, vendor |-> NULL,
     buildhost_subdomain |-> NoList,
     elf_path_include |-> NoRegex, elf_path_exclude |-> NoRegex,
     manpage_path_include |-> NoRegex, manpage_path_exclude |-> NoRegex,
     xml_path_include |-> NoRegex, xml_path_exclude |-> NoRegex,
     desktop_entry_files_dir |-> NULL,
     peers |-> NoList, results |-> NoList,
     threshold |-> "0", worst_result |-> "0"]

\* lines 830-863
Defaults ==
    [Zeroed EXCEPT !.workdir = DEFAULT_WORKDIR,
                   !.profiledir = CFG_PROFILE_DIR,
                   !.licensedb = LICENSE_DB_FILE,
                   !.desktop_entry_files_dir = DESKTOP_ENTRY_FILES_DIR]

\* lines 902-914; init_rpmpeer returns an empty list
RuntimeMembers(r) ==
    [r EXCEPT !.peers = [null |-> FALSE, items |-> <<>>],
              !.results = NoList,
              !.threshold = RESULT_VERIFY,
              !.worst_result = RESULT_OK]

----------------------------------------------------------------------------
(* Inputs of init_rpminspect *)

\* a dictionary without any of the settings
EmptyCfg ==
    [workdir |-> NULL, profiledir |-> NULL, licensedb |-> NULL,
     badwords |-> NULL, vendor |-> NULL, buildhost_subdomain |-> NULL,
     elf_path_include |-> NULL, elf_path_exclude |-> NULL,
     manpage_path_include |-> NULL, manpage_path_exclude |-> NULL,
     xml_path_include |-> NULL, xml_path_exclude |-> NULL,
     desktop_entry_files_dir |-> NULL]

\* a file: absent or unreadable, one iniparser_load cannot parse, or its
\* dictionary
MissingFile == [kind |-> "missing", dict |-> EmptyCfg]

UnparsableFile == [kind |-> "unparsable", dict |-> EmptyCfg]

CfgFile(dict) == [kind |-> "file", dict |-> dict]

P_Dir == <<"p">>
R_Good == <<"a">>
R_Other == <<"b">>
R_Bad == <<"(">>
R_Bracket == <<"[">>

MainDicts ==
    { EmptyCfg,
      [EmptyCfg EXCEPT !.workdir = <<"v">>],
      [EmptyCfg EXCEPT !.profiledir = P_Dir],
      [EmptyCfg EXCEPT !.profiledir = P_Dir, !.vendor = V_Acme,
                       !.licensedb = <<"j">>],
      [EmptyCfg EXCEPT !.badwords = <<"m", " ", " ", "x", "\t">>,
                       !.buildhost_subdomain = <<".", "g">>],
      [EmptyCfg EXCEPT !.elf_path_include = R_Good,
                       !.desktop_entry_files_dir = <<"k">>],
      [EmptyCfg EXCEPT !.elf_path_include = R_Bad,
                       !.desktop_entry_files_dir = <<"k">>],
      [EmptyCfg EXCEPT !.manpage_path_include = <<>>,
                       !.xml_path_exclude = R_Good],
      [EmptyCfg EXCEPT !.profiledir = P_Dir, !.elf_path_exclude = R_Good,
                       !.manpage_path_exclude = R_Bracket,
                       !.xml_path_include = R_Good],
      [EmptyCfg EXCEPT !.xml_path_exclude = R_Bad] }

ProfileDicts ==
    { EmptyCfg,
      [EmptyCfg EXCEPT !.workdir = <<"u">>, !.profiledir = <<"q">>,
                       !.vendor = V_Other],
      [EmptyCfg EXCEPT !.elf_path_include = R_Other,
                       !.desktop_entry_files_dir = <<"n">>],
      [EmptyCfg EXCEPT !.elf_path_include = R_Bad,
                       !.desktop_entry_files_dir = <<"n">>],
      [EmptyCfg EXCEPT !.badwords = <<"y">>, !.xml_path_include = R_Bracket],
      [EmptyCfg EXCEPT !.licensedb = <<"i">>, !.elf_path_include = <<>>] }

MainFiles == {MissingFile, UnparsableFile} \cup {CfgFile(d) : d \in MainDicts}

ProfileFiles ==
    {MissingFile, UnparsableFile} \cup {CfgFile(d) : d \in ProfileDicts}

\* the directories <profiledir>/<profile>.conf is looked up in
ProfileDirs == {CFG_PROFILE_DIR, P_Dir}

\* cfgfile, profile (given or NULL) and the profile files on disk
Configs ==
    { [main |-> f, profile |-> FALSE,
       profiles |-> [d \in ProfileDirs |-> MissingFile]] : f \in MainFiles }
    \cup
    { [main |-> f, profile |-> TRUE,
       profiles |-> [d \in ProfileDirs |-> IF d = P_Dir THEN o[1] ELSE o[2]]] :
        f \in MainFiles, o \in ProfileFiles \X ProfileFiles }

----------------------------------------------------------------------------
(* Specification of init_rpminspect *)

InitInit ==
    /\ pc = "start"
    /\ ret = ""
    /\ results = <<>>
    /\ worst_result = RESULT_OK
    /\ errlog = <<>>
    /\ LicenseIdle
    /\ idx = 1
    /\ locals = <<>>
    /\ KmodIdle
    /\ UpstreamIdle
    /\ MetadataIdle
    /\ config \in Configs
    /\ ri = Zeroed
    /\ WhitelistIdle

\* lines 827-874: the defaults; a missing configuration file returns 0
InitRpminspectDefaults ==
    /\ pc = "start"
    /\ IF config.main.kind = "missing"
       THEN /\ ri' = Defaults
            /\ ret' = "0"
            /\ pc' = "done"
       ELSE /\ ri' = [Defaults EXCEPT !.cfgfile = TRUE]
            /\ ret' = ret
            /\ pc' = "main"
    /\ UNCHANGED <<results, worst_result, errlog, idx, locals, config>>
    /\ UNCHANGED licenseVars
    /\ UNCHANGED kmodVars
    /\ UNCHANGED upstreamVars
    /\ UNCHANGED metadataVars
    /\ UNCHANGED whitelistVars

\* lines 876-886: the main configuration file
InitRpminspectMain ==
    /\ pc = "main"
    /\ IF config.main.kind = "unparsable"
       THEN \* line 340: assert(cfg != NULL)
            /\ ret' = "abort"
            /\ pc' = "done"
            /\ UNCHANGED <<ri, errlog>>
       ELSE \E r \in {read_cfgfile(config.main.dict, ri, FALSE)} :
            /\ ri' = r.ri
            /\ IF r.ret # 0
               THEN /\ errlog' = errlog \o r.err \o <<"error_reading">>
                    /\ ret' = "-1"
                    /\ pc' = "done"
               ELSE /\ errlog' = errlog
                    /\ ret' = ret
                    /\ pc' = "profile"
    /\ UNCHANGED <<results, worst_result, idx, locals, config>>
    /\ UNCHANGED licenseVars
    /\ UNCHANGED kmodVars
    /\ UNCHANGED upstreamVars
    /\ UNCHANGED metadataVars
    /\ UNCHANGED whitelistVars

\* lines 888-900: the overlay of the profile; ret is assigned and not read
InitRpminspectProfile ==
    /\ pc = "profile"
    /\ LET file == config.profiles[ri.profiledir] IN
       IF ~config.profile
       THEN /\ pc' = "runtime"
            /\ UNCHANGED <<ri, errlog, ret>>
       ELSE IF file.kind = "missing"
       THEN /\ errlog' = Append(errlog, "profile_unreadable")
            /\ pc' = "runtime"
            /\ UNCHANGED <<ri, ret>>
       ELSE IF file.kind = "unparsable"
       THEN /\ ret' = "abort"
            /\ pc' = "done"
            /\ UNCHANGED <<ri, errlog>>
       ELSE \E r \in {read_cfgfile(file.dict, ri, TRUE)} :
            /\ ri' = r.ri
            /\ errlog' = errlog \o r.err
            /\ ret' = ret
            /\ pc' = "runtime"
    /\ UNCHANGED <<results, worst_result, idx, locals, config>>
    /\ UNCHANGED licenseVars
    /\ UNCHANGED kmodVars
    /\ UNCHANGED upstreamVars
    /\ UNCHANGED metadataVars
    /\ UNCHANGED whitelistVars

\* lines 902-916
InitRpminspectRuntime ==
    /\ pc = "runtime"
    /\ ri' = RuntimeMembers(ri)
    /\ ret' = "0"
    /\ pc' = "done"
    /\ UNCHANGED <<results, worst_result, errlog, idx, locals, config>>
    /\ UNCHANGED licenseVars
    /\ UNCHANGED kmodVars
    /\ UNCHANGED upstreamVars
    /\ UNCHANGED metadataVars
    /\ UNCHANGED whitelistVars

NextInit ==
    \/ InitRpminspectDefaults
    \/ InitRpminspectMain
    \/ InitRpminspectProfile
    \/ InitRpminspectRuntime

SpecInit == InitInit /\ [][NextInit]_vars

----------------------------------------------------------------------------
(* init_stat_whitelist and init_caps_whitelist *)

\* A line is the text getline returns without its terminating newline; the
\* empty sequence is a blank line.

MaxLines == 3

\* strsep(&line, " \t"): the next token and what line points to afterwards,
\* NULL once no delimiter is left
strsep_ws(line) ==
    IF \E i \in 1..Len(line) : line[i] \in {" ", "\t"}
    THEN LET i == CHOOSE k \in 1..Len(line) :
                      /\ line[k] \in {" ", "\t"}
                      /\ \A j \in 1..(k - 1) : line[j] \notin {" ", "\t"}
         IN [token |-> SubSeq(line, 1, i - 1),
             rest |-> SubSeq(line, i + 1, Len(line))]
    ELSE [token |-> line, rest |-> NULL]

\* lines 638, 751: blank lines and comments are skipped
SkippedLine(line) == line = <<>> \/ line[1] \in {"#", "\r"}

\* lines 645, 758: line[strcspn(line, "\r\n")] = '\0'
TrimLineEnding(line) ==
    IF \E i \in 1..Len(line) : line[i] = "\r"
    THEN SubSeq(line, 1, (CHOOSE k \in 1..Len(line) :
                             line[k] = "\r" /\ \A j \in 1..(k - 1) : line[j] # "\r") - 1)
    ELSE line

\* stat_whitelist_field_t
MODE == 0
OWNER == 1
GROUP == 2
FILENAME == 3

\* parse_mode is not part of these sources: the mode is kept as its text
parse_mode(token) == [text |-> token]

\* line 648: calloc(1, sizeof(*entry))
NewStatEntry ==
    [mode |-> [text |-> NULL], owner |-> NULL, group |-> NULL, filename |-> NULL]

\* lines 667-669: the token from its first '/' on, empty without one
RECURSIVE FromSlash(_)
FromSlash(token) ==
    IF token = <<>> \/ token[1] = "/" THEN token ELSE FromSlash(Tail(token))

\* lines 652-690: the strsep loop of one line; has is entry != NULL
RECURSIVE StatFields(_, _, _)
StatFields(line, field, entry) ==
    IF line = NULL THEN [has |-> TRUE, entry |-> entry, line |-> NULL, err |-> <<>>]
    ELSE LET r == strsep_ws(line) IN
         IF r.token = <<>> THEN StatFields(r.rest, field, entry)
         ELSE IF field = MODE
         THEN StatFields(r.rest, OWNER, [entry EXCEPT !.mode = parse_mode(r.token)])
         ELSE IF field = OWNER
         THEN StatFields(r.rest, GROUP, [entry EXCEPT !.owner = r.token])
         ELSE IF field = GROUP
         THEN StatFields(r.rest, FILENAME, [entry EXCEPT !.group = r.token])
         ELSE IF FromSlash(r.token) = <<>>
         THEN [has |-> FALSE, entry |-> entry, line |-> r.rest,
               err |-> <<"invalid_filename">>]
         ELSE [has |-> TRUE, entry |-> [entry EXCEPT !.filename = FromSlash(r.token)],
               line |-> r.rest, err |-> <<>>]

\* lines 637-700: one turn of the getline loop; freed is what free(line) at
\* line 697 is handed, NULL or a pointer into the middle of the buffer
StatLine(whitelist, line) ==
    IF SkippedLine(line)
    THEN [whitelist |-> whitelist, freed |-> NULL, err |-> <<>>]
    ELSE LET f == StatFields(TrimLineEnding(line), MODE, NewStatEntry) IN
         [whitelist |-> IF f.has
                        THEN [whitelist EXCEPT !.items = Append(@, f.entry)]
                        ELSE whitelist,
          freed |-> f.line, err |-> f.err]

\* caps_whitelist_field_t
PACKAGE == 0
FILEPATH == 1
CAPABILITIES == 2

\* a caps_filelist_entry_t pointer: NULL or an entry
NoFilelistEntry == [null |-> TRUE, path |-> NULL, caps |-> NULL]

\* line 789: calloc(1, sizeof(*filelist_entry))
NewFilelistEntry == [null |-> FALSE, path |-> NULL, caps |-> NULL]

\* a lookup that never finds the package
FindPackageNever(items, token) == 0

\* lines 771-776: the index of the entry of the package, 0 if there is none
FindPackage(items, token) ==
    IF \E i \in 1..Len(items) : items[i].pkg = token
    THEN CHOOSE i \in 1..Len(items) :
             items[i].pkg = token /\ \A j \in 1..(i - 1) : items[j].pkg # token
    ELSE 0

\* lines 761-798: the strsep loop of one line; filelist is the index of the
\* entry whose file list was chosen, 0 for NULL
RECURSIVE CapsFields(_, _, _, _, _)
CapsFields(line, field, items, filelist, filelist_entry) ==
    IF line = NULL
    THEN [items |-> items, files |-> filelist, filelist_entry |-> filelist_entry]
    ELSE LET r == strsep_ws(line) IN
         IF r.token = <<>>
         THEN CapsFields(r.rest, field, items, filelist, filelist_entry)
         ELSE IF field = PACKAGE
         THEN LET found == FindPackage(items, r.token)
                  items2 == IF found = 0
                            THEN Append(items, [pkg |-> r.token, files |-> <<>>])
                            ELSE items
                  filelist2 == IF found = 0 THEN Len(items2) ELSE found
              IN CapsFields(r.rest, FILEPATH, items2, filelist2, NewFilelistEntry)
         ELSE IF field = FILEPATH
         THEN CapsFields(r.rest, CAPABILITIES, items, filelist,
                         [filelist_entry EXCEPT !.path = r.token])
         ELSE IF field = CAPABILITIES
         THEN CapsFields(r.rest, field + 1, items, filelist,
                         [filelist_entry EXCEPT !.caps = r.token])
         ELSE CapsFields(r.rest, field + 1, items, filelist, filelist_entry)

\* lines 750-810: one turn of the getline loop; filelist_entry keeps its
\* value from the turn before, files is NULL again.  TAILQ_INSERT_TAIL on a
\* NULL list is a write through a NULL pointer.
CapsLine(whitelist, line, filelist_entry) ==
    IF SkippedLine(line)
    THEN [whitelist |-> whitelist, filelist_entry |-> filelist_entry, fault |-> ""]
    ELSE LET f == CapsFields(TrimLineEnding(line), PACKAGE, whitelist.items, 0,
                             filelist_entry)
         IN IF f.filelist_entry.null
            THEN [whitelist |-> whitelist, filelist_entry |-> f.filelist_entry,
                  fault |-> ""]
            ELSE IF f.files = 0
            THEN [whitelist |-> whitelist, filelist_entry |-> f.filelist_entry,
                  fault |-> "segv"]
            ELSE [whitelist |->
                      [whitelist EXCEPT !.items =
                          [f.items EXCEPT ![f.files].files =
                              Append(@, [path |-> f.filelist_entry.path,
                                         caps |-> f.filelist_entry.caps])]],
                  filelist_entry |-> f.filelist_entry, fault |-> ""]

----------------------------------------------------------------------------
(* Inputs of the whitelist loaders *)

StatLines ==
    { <<"#", "c">>,
      <<>>,
      <<" ", "\t">>,
      <<"7", " ", "r", " ", "g", " ", "/", "f">>,
      <<"5", " ", " ", "r", "\t", "g", " ", "/", "h", "\r">>,
      <<"7", " ", "r", " ", "g", " ", "u", "/", "f">>,
      <<"7", " ", "r", " ", "g", " ", "f">>,
      <<"7", " ", "r">>,
      <<"7", " ", "r", " ", "g", " ", "/", "f", " ">> }

CapsLines ==
    { <<"#", "c">>,
      <<>>,
      <<" ", "\t">>,
      <<"p", " ", "/", "f", " ", "c">>,
      <<"p", " ", " ", "/", "g", "\t", "c", "\r">>,
      <<"q", " ", "/", "f", " ", "c">>,
      <<"p">>,
      <<"q", " ", "/", "h">>,
      <<"q", " ", "/", "f", " ", "c", " ", "x">> }

----------------------------------------------------------------------------
(* One process calling init_stat_whitelist and init_caps_whitelist *)

InitWhitelists ==
    /\ pc = "idle"
    /\ ret = ""
    /\ results = <<>>
    /\ worst_result = RESULT_OK
    /\ errlog = <<>>
    /\ LicenseIdle
    /\ idx = 1
    /\ locals = [filelist_entry |-> NoFilelistEntry]
    /\ KmodIdle
    /\ UpstreamIdle
    /\ MetadataIdle
    /\ InitIdle
    /\ WhitelistIdle

\* lines 600-634: an initialised whitelist returns true, a file that cannot
\* be opened false
InitStatWhitelist ==
    /\ pc = "idle"
    /\ \/ /\ ~stat_whitelist.null
          /\ ret' = "true"
          /\ UNCHANGED <<pc, stat_whitelist>>
       \/ /\ stat_whitelist.null
          /\ ret' = "false"
          /\ UNCHANGED <<pc, stat_whitelist>>
       \/ /\ stat_whitelist.null
          /\ ret' = ""
          /\ pc' = "stat"
          /\ stat_whitelist' = [null |-> FALSE, items |-> <<>>]
    /\ UNCHANGED <<results, worst_result, errlog, idx, locals,
                   caps_whitelist, statfile, capsfile>>
    /\ UNCHANGED licenseVars
    /\ UNCHANGED kmodVars
    /\ UNCHANGED upstreamVars
    /\ UNCHANGED metadataVars
    /\ UNCHANGED initVars

\* lines 637-700: the next line of the file.  free(line) on a pointer into
\* the middle of the buffer is undefined: the allocator aborts or goes on.
InitStatWhitelistLine ==
    /\ pc = "stat"
    /\ Len(statfile) + Len(capsfile) < MaxLines
    /\ \E line \in StatLines :
       \E r \in {StatLine(stat_whitelist, line)} :
          /\ statfile' = Append(statfile, line)
          /\ stat_whitelist' = r.whitelist
          /\ errlog' = errlog \o r.err
          /\ \/ /\ UNCHANGED <<pc, ret>>
             \/ /\ r.freed # NULL
                /\ ret' = "abort"
                /\ pc' = "crashed"
    /\ UNCHANGED <<results, worst_result, idx, locals, caps_whitelist, capsfile>>
    /\ UNCHANGED licenseVars
    /\ UNCHANGED kmodVars
    /\ UNCHANGED upstreamVars
    /\ UNCHANGED metadataVars
    /\ UNCHANGED initVars

\* lines 637, 702: getline returns -1
InitStatWhitelistReturn ==
    /\ pc = "stat"
    /\ ret' = "true"
    /\ pc' = "idle"
    /\ UNCHANGED <<results, worst_result, errlog, idx, locals>>
    /\ UNCHANGED whitelistVars
    /\ UNCHANGED licenseVars
    /\ UNCHANGED kmodVars
    /\ UNCHANGED upstreamVars
    /\ UNCHANGED metadataVars
    /\ UNCHANGED initVars

\* lines 712-747
InitCapsWhitelist ==
    /\ pc = "idle"
    /\ \/ /\ ~caps_whitelist.null
          /\ ret' = "true"
          /\ UNCHANGED <<pc, caps_whitelist, locals>>
       \/ /\ caps_whitelist.null
          /\ ret' = "false"
          /\ UNCHANGED <<pc, caps_whitelist, locals>>
       \/ /\ caps_whitelist.null
          /\ ret' = ""
          /\ pc' = "caps"
          /\ caps_whitelist' = [null |-> FALSE, items |-> <<>>]
          /\ locals' = [filelist_entry |-> NoFilelistEntry]
    /\ UNCHANGED <<results, worst_result, errlog, idx,
                   stat_whitelist, statfile, capsfile>>
    /\ UNCHANGED licenseVars
    /\ UNCHANGED kmodVars
    /\ UNCHANGED upstreamVars
    /\ UNCHANGED metadataVars
    /\ UNCHANGED initVars

\* lines 750-810: the next line of the file
InitCapsWhitelistLine ==
    /\ pc = "caps"
    /\ Len(statfile) + Len(capsfile) < MaxLines
    /\ \E line \in CapsLines :
       \E r \in {CapsLine(caps_whitelist, line, locals.filelist_entry)} :
          /\ capsfile' = Append(capsfile, line)
          /\ caps_whitelist' = r.whitelist
          /\ locals' = [filelist_entry |-> r.filelist_entry]
          /\ IF r.fault # ""
             THEN /\ ret' = r.fault
                  /\ pc' = "crashed"
             ELSE UNCHANGED <<pc, ret>>
    /\ UNCHANGED <<results, worst_result, errlog, idx, stat_whitelist, statfile>>
    /\ UNCHANGED licenseVars
    /\ UNCHANGED kmodVars
    /\ UNCHANGED upstreamVars
    /\ UNCHANGED metadataVars
    /\ UNCHANGED initVars

\* lines 750, 812: getline returns -1
InitCapsWhitelistReturn ==
    /\ pc = "caps"
    /\ ret' = "true"
    /\ pc' = "idle"
    /\ UNCHANGED <<results, worst_result, errlog, idx, locals>>
    /\ UNCHANGED whitelistVars
    /\ UNCHANGED licenseVars
    /\ UNCHANGED kmodVars
    /\ UNCHANGED upstreamVars
    /\ UNCHANGED metadataVars
    /\ UNCHANGED initVars

NextWhitelists ==
    \/ InitStatWhitelist
    \/ InitStatWhitelistLine
    \/ InitStatWhitelistReturn
    \/ InitCapsWhitelist
    \/ InitCapsWhitelistLine
    \/ InitCapsWhitelistReturn

SpecWhitelists == InitWhitelists /\ [][NextWhitelists]_vars

----------------------------------------------------------------------------
(* Properties of is_valid_license *)

Count(t, i, c) == Cardinality({k \in 1..i : t[k] = c})

\* a ')' that closes nothing, or a '(' that is never closed
Unbalanced(t) ==
    \/ \E i \in 1..Len(t) : Count(t, i, ")") > Count(t, i, "(")
    \/ Count(t, Len(t), "(") # Count(t, Len(t), ")")

IsApproved(e) == e.approved # NULL /\ strcasecmp0(e.approved, S_yes)

\* the expression t is the name or an abbreviation of an approved entry
NamesApprovedEntry(t) ==
    \E i \in 1..Len(dbfile.entries) :
        LET e == dbfile.entries[i]
        IN IsApproved(e) /\ t \in {e.license_name, e.fedora_abbrev, e.spdx_abbrev}

\* C1: is_valid_license returns false for every expression with unbalanced
\* parentheses, whatever the database holds and also when it cannot be loaded.
C1_UnbalancedIsInvalid ==
    (pc = "done" /\ Unbalanced(tag)) => ret = "false"

\* an unbalanced expression that names an approved entry was rejected
C1_Witness ==
    /\ pc = "done"
    /\ Unbalanced(tag)
    /\ NamesApprovedEntry(tag)
    /\ ret = "false"

\* every entry of the database carries both abbreviation properties
WellFormedDb ==
    \A i \in 1..Len(dbfile.entries) :
        /\ dbfile.entries[i].fedora_abbrev # NULL
        /\ dbfile.entries[i].spdx_abbrev # NULL

\* C2: for every approved entry e, is_valid_license applied to e's canonical
\* name returns true, whatever e's abbreviations are (both empty included) and
\* wherever e stands in the database.  Stated here for the databases whose
\* entries all carry both abbreviation properties.
C2_WholeTagShortcut ==
    (pc = "done" /\ dbfile.readable /\ WellFormedDb) =>
        \A i \in 1..Len(dbfile.entries) :
            (IsApproved(dbfile.entries[i]) /\ tag = dbfile.entries[i].license_name)
                => ret = "true"

\* words that are no boolean keyword, and the phrases made of one or two
Words == {S_M, S_MM, <<"O", "R", "M">>, <<"M", "O", "R">>}
Phrases == Words \cup {a \o <<" ">> \o b : a \in Words, b \in Words}

\* the expressions "A and B" of two phrases
AndForms == {[a |-> a, b |-> b, t |-> a \o <<" ", "a", "n", "d", " ">> \o b] :
                 a \in Phrases, b \in Phrases}

\* the phrase p is an abbreviation of an approved entry
MatchesApproved(p) ==
    \E i \in 1..Len(dbfile.entries) :
        LET e == dbfile.entries[i]
        IN IsApproved(e) /\ p \in {e.fedora_abbrev, e.spdx_abbrev}

\* the whole expression t names an approved entry that has an abbreviation
WholeTagMatch(t) ==
    \E i \in 1..Len(dbfile.entries) :
        LET e == dbfile.entries[i]
        IN /\ IsApproved(e)
           /\ ~(e.fedora_abbrev = <<>> /\ e.spdx_abbrev = <<>>)
           /\ t \in {e.license_name, e.fedora_abbrev, e.spdx_abbrev}

C4_EmptyIsValid ==
    (pc = "done" /\ tag = <<>> /\ dbfile.readable) =>
        (ret = "true" /\ locals.seen = 0 /\ locals.valid = 0)

\* the number of maximal runs of non-empty, non-boolean tokens
RECURSIVE CountPhrases(_, _)
CountPhrases(tokens, inside) ==
    IF tokens = <<>> THEN 0
    ELSE IF Head(tokens) = <<>> THEN CountPhrases(Tail(tokens), inside)
    ELSE IF IsBoolean(Head(tokens)) THEN CountPhrases(Tail(tokens), FALSE)
    ELSE (IF inside THEN 0 ELSE 1) + CountPhrases(Tail(tokens), TRUE)

\* the number of non-empty, non-boolean tokens
RECURSIVE CountWords(_)
CountWords(tokens) ==
    IF tokens = <<>> THEN 0
    ELSE (IF Head(tokens) = <<>> \/ IsBoolean(Head(tokens)) THEN 0 ELSE 1)
         + CountWords(Tail(tokens))

\* C23: when is_valid_license comes to compare seen with valid, seen is the
\* number of candidate phrases of the tag (maximal runs of non-boolean
\* tokens, a multi-word abbreviation counting once) and every phrase was
\* looked up exactly once; a call that returns earlier has looked up each
\* phrase it has seen once.
C23_SeenCountsPhrases ==
    (pc = "done" /\ ret \in {"true", "false"}) =>
        /\ locals.looked = locals.seen
        /\ locals.seen <= CountPhrases(strsep(tag), FALSE)
        /\ locals.compared => locals.seen = CountPhrases(strsep(tag), FALSE)

\* a call that compared the counters for a tag of two phrases, one of them
\* of two words
C23_Witness ==
    /\ pc = "done"
    /\ locals.compared
    /\ locals.seen = 2
    /\ CountWords(strsep(tag)) = 3
    /\ \E i \in 1..Len(strsep(tag)) : IsBoolean(strsep(tag)[i])

\* C25: for a balanced license expression, whatever its boolean keywords
\* (leading, trailing, doubled, or nothing else), is_valid_license never
\* hands check_license_abbrev an absent phrase and returns a boolean.
\* Stated for the databases whose entries carry both abbreviations.
C25_NoAbsentPhraseLookup ==
    (pc = "done" /\ ParensMatch(tag) /\ dbfile.readable /\ WellFormedDb) =>
        ret \in {"true", "false"}

----------------------------------------------------------------------------
(* Properties of inspect_license *)

HasFinding(header, msg) ==
    \E i \in 1..Len(results) : results[i].header = header /\ results[i].msg = msg

\* an after package has no License tag, an invalid one, or one with a forbidden word
LicenseProblem ==
    \/ \E i \in 1..Len(peers) : peers[i].after_rpm /\ peers[i].license = NULL
    \/ HasFinding(HEADER_LICENSE, "invalid_license")
    \/ HasFinding(HEADER_LICENSE, "bad_word")

\* C5: inspect_license passes only when it found zero problems: with a missing
\* or invalid License tag or a forbidden word in one, it returns false and
\* records no OK finding under the license tag.
C5_PassOnlyWithoutProblems ==
    (pc = "done" /\ ret \in {"true", "false"} /\ LicenseProblem) =>
        (ret = "false" /\ ~HasFinding(HEADER_LICENSE, "ok"))


\* the entry has neither abbreviation: each property is absent or empty
LacksAbbrevs(e) ==
    /\ e.fedora_abbrev \in {NULL, <<>>}
    /\ e.spdx_abbrev \in {NULL, <<>>}

\* C17: an entry without both abbreviations (absent or empty) is skipped and
\* never crashes the lookup, and the other entries are still searched: the
\* outcome is the outcome over the database without such entries.
C17_AbbrevlessEntriesSkipped ==
    (/\ pc = "done"
     /\ dbfile.readable
     /\ \E i \in 1..Len(dbfile.entries) : LacksAbbrevs(dbfile.entries[i])
     /\ \A i \in 1..Len(dbfile.entries) :
           \/ LacksAbbrevs(dbfile.entries[i])
           \/ (dbfile.entries[i].fedora_abbrev # NULL /\ dbfile.entries[i].spdx_abbrev # NULL))
    => /\ ret # "segv"
       /\ ret = is_valid_license(JsonNull,
                    DbFile(SelectSeq(dbfile.entries, LAMBDA e : ~LacksAbbrevs(e))),
                    tag).out


----------------------------------------------------------------------------
(* Properties of inspect_kmod *)

SamePackage(f) == f.before_name = f.after_name /\ f.before_ver = f.after_ver

\* C6: for every module file, whatever was handled before it, the findings for
\* its lost parameters, lost dependencies and aliases are VERIFY and
\* WAIVABLE_BY_ANYONE iff its before and after package name and version are
\* equal, and INFO and NOT_WAIVABLE otherwise.
C6_SeverityPerFile ==
    \A i \in 1..Len(results) :
        results[i].msg \in {"removes_parameter", "removes_dependency",
                            "lost_alias", "gained_alias"}
        => IF SamePackage(files[results[i].subject.n])
           THEN /\ results[i].severity = RESULT_VERIFY
                /\ results[i].waiverauth = WAIVABLE_BY_ANYONE
           ELSE /\ results[i].severity = RESULT_INFO
                /\ results[i].waiverauth = NOT_WAIVABLE

\* kmod_driver reaches kmod_module_get_info for f and the call fails
GetInfoFails(f) ==
    /\ ~f.is_source /\ f.is_reg /\ ~f.in_debug_path
    /\ f.in_modules_dir /\ f.has_module_ext /\ f.has_peer
    /\ f.before_is_kmod /\ f.after_is_kmod
    /\ (~f.before_info_ok \/ ~f.after_info_ok)

FailedFiles == {n \in 1..Len(files) : GetInfoFails(files[n])}

Range(q) == {q[i] : i \in 1..Len(q)}

NoOkFinding == \A i \in 1..Len(results) : results[i].msg # "ok"

\* C10 as stated: when kmod_module_get_info fails for a file, the result sink
\* holds a finding about that file, kmod_driver returns false, and inspect_kmod
\* returns false without recording an OK finding.
C10_GetInfoFailureInSink ==
    \A n \in FailedFiles :
        /\ \E i \in 1..Len(results) : results[i].subject.n = n
        /\ ~locals.result
        /\ NoOkFinding
        /\ ret # "true"

\* C10 amended: when kmod_module_get_info fails for a file, the failure is
\* written to stderr and the result sink holds no finding about that file;
\* kmod_driver returns false, and inspect_kmod, when it returns, returns false
\* without recording an OK finding.
C10_GetInfoFailureOnStderr ==
    \A n \in FailedFiles :
        /\ About(n, IF ~files[n].before_info_ok
                    THEN "error reading before kernel module"
                    ELSE "error reading after kernel module") \in Range(errlog)
        /\ \A i \in 1..Len(results) : results[i].subject.n # n
        /\ ~locals.result
        /\ NoOkFinding
        /\ ret # "true"
        /\ (pc = "done" /\ ret # "segv") => ret = "false"

\* inspect_kmod has returned after get_info failed on the after module of one
\* file and another file lost a parameter
C10_Witness ==
    /\ pc = "done"
    /\ ret = "false"
    /\ \E n \in FailedFiles : files[n].before_info_ok
    /\ \E i \in 1..Len(results) : results[i].msg = "removes_parameter"



\* kmod_driver reaches the comparisons for f
Compared(f) ==
    /\ ~f.is_source /\ f.is_reg /\ ~f.in_debug_path
    /\ f.in_modules_dir /\ f.has_module_ext /\ f.has_peer
    /\ f.before_is_kmod /\ f.after_is_kmod
    /\ f.before_info_ok /\ f.after_info_ok

\* the findings with message msg about item x of file n
KmodFindings(msg, n, x) ==
    {j \in 1..Len(results) : /\ results[j].header = HEADER_KMOD
                             /\ results[j].msg = msg
                             /\ results[j].subject = About(n, x)}

\* C11: every gained parameter of a module pair gives one finding, always INFO
\* and NOT_WAIVABLE; every gained dependency gives one finding with the
\* severity and waiver authority of the lost dependencies of the same file.
C11_GainedFindings ==
    \A n \in 1..Len(files) :
        Compared(files[n])
        => LET b == files[n].before_info
               a == files[n].after_info
           IN  /\ \A x \in a.parm \ b.parm :
                     /\ Cardinality(KmodFindings("adds_parameter", n, x)) = 1
                     /\ \A j \in KmodFindings("adds_parameter", n, x) :
                           /\ results[j].severity = RESULT_INFO
                           /\ results[j].waiverauth = NOT_WAIVABLE
               /\ \A x \in a.depends \ b.depends :
                     /\ Cardinality(KmodFindings("adds_dependency", n, x)) = 1
                     /\ \A j \in KmodFindings("adds_dependency", n, x) :
                        \A y \in b.depends \ a.depends :
                        \A k \in KmodFindings("removes_dependency", n, y) :
                           /\ results[j].severity = results[k].severity
                           /\ results[j].waiverauth = results[k].waiverauth

\* a module of a package whose name or version differs, handled while the
\* statics are VERIFY from an earlier file, gained a parameter and both lost
\* and gained a dependency
C11_Witness ==
    /\ kmod_sev = RESULT_VERIFY
    /\ \E n \in 1..Len(files) :
          /\ Compared(files[n])
          /\ ~SamePackage(files[n])
          /\ files[n].after_info.parm \ files[n].before_info.parm # {}
          /\ files[n].after_info.depends \ files[n].before_info.depends # {}
          /\ files[n].before_info.depends \ files[n].after_info.depends # {}
          /\ \E x \in files[n].after_info.depends :
                KmodFindings("adds_dependency", n, x) # {}

\* C12: for the parameter sets and for the dependency sets of a module pair,
\* lost and gain are the two set differences, they are disjoint and empty for
\* equal sets, and kmod_driver records one finding per lost element and one
\* per gained element, none for any other name.
C12_SetDifferences ==
    \A n \in 1..Len(files) :
        Compared(files[n])
        => LET b == files[n].before_info
               a == files[n].after_info
               p == compare_module_parameters(b, a)
               d == compare_module_dependencies(b, a)
               One(msg, x, in) == Cardinality(KmodFindings(msg, n, x))
                                     = IF in THEN 1 ELSE 0
           IN  /\ Range(p.lost) = b.parm \ a.parm /\ Range(p.gain) = a.parm \ b.parm
               /\ Range(d.lost) = b.depends \ a.depends
               /\ Range(d.gain) = a.depends \ b.depends
               /\ Range(p.lost) \cap Range(p.gain) = {}
               /\ Range(d.lost) \cap Range(d.gain) = {}
               /\ (b.parm = a.parm) => (p.lost = <<>> /\ p.gain = <<>>)
               /\ (b.depends = a.depends) => (d.lost = <<>> /\ d.gain = <<>>)
               /\ \A x \in b.parm \cup a.parm :
                     /\ One("removes_parameter", x, x \in Range(p.lost))
                     /\ One("adds_parameter", x, x \in Range(p.gain))
                     /\ ~(KmodFindings("removes_parameter", n, x) # {}
                          /\ KmodFindings("adds_parameter", n, x) # {})
               /\ \A x \in b.depends \cup a.depends :
                     /\ One("removes_dependency", x, x \in Range(d.lost))
                     /\ One("adds_dependency", x, x \in Range(d.gain))
                     /\ ~(KmodFindings("removes_dependency", n, x) # {}
                          /\ KmodFindings("adds_dependency", n, x) # {})

\* a module pair that kept one parameter, lost one and gained one, and a pair
\* with equal non-empty sets, in one run
C12_Witness ==
    /\ \E n \in 1..Len(files) :
          /\ Compared(files[n])
          /\ files[n].before_info.parm \cap files[n].after_info.parm # {}
          /\ \E x \in files[n].before_info.parm : KmodFindings("removes_parameter", n, x) # {}
          /\ \E x \in files[n].after_info.parm : KmodFindings("adds_parameter", n, x) # {}
    /\ \E n \in 1..Len(files) :
          /\ Compared(files[n])
          /\ files[n].before_info = files[n].after_info
          /\ files[n].before_info.parm # {}


\* f passes the four skips of kmod_driver (lines 85-106) and has no before peer
UnpairedModule(f) ==
    /\ ~f.is_source /\ f.is_reg /\ ~f.in_debug_path
    /\ f.in_modules_dir /\ f.has_module_ext /\ ~f.has_peer

\* C26: for a regular file on a kernel-module path with the module extension
\* that has no before peer, kmod_driver never reads the absent peer: the run
\* does not fault, no finding about the file is recorded, and the file does not
\* make the result false.
C26_UnpairedModuleSkipped ==
    \A n \in 1..Len(files) :
        UnpairedModule(files[n])
        => /\ ret # "segv"
           /\ \A i \in 1..Len(results) : results[i].subject.n # n
           /\ (\A m \in 1..Len(files) : UnpairedModule(files[m]))
              => locals.result

----------------------------------------------------------------------------
(* Properties of inspect_upstream *)

SrcPeers == {i \in 1..Len(build) : build[i].is_source}

\* name is listed in the Source tag of package p
Declared(p, name) == p.has_source_tag /\ name \in p.sources

\* how many after files of peer i upstream_driver has handled so far
Handled(i) ==
    IF pc = "files" /\ locals.peer = i THEN idx - 1
    ELSE IF pc \in {"peer", "files", "finish", "done"} /\ locals.peer > i
    THEN Len(build[i].after_files)
    ELSE 0

FindingsAbout(name) ==
    {j \in 1..Len(results) : /\ results[j].header = HEADER_UPSTREAM
                             /\ results[j].subject.item = name}

\* C7: a declared source file of the after source package without a before
\* peer gets exactly one finding, and that finding is INFO and NOT_WAIVABLE,
\* whether or not the version changed.
C7_NewSourceIsInfo ==
    \A i \in SrcPeers : \A k \in 1..Handled(i) :
        LET f == build[i].after_files[k]
        IN  (Declared(build[i], f.name) /\ ~f.has_peer)
            => /\ Cardinality(FindingsAbout(f.name)) = 1
               /\ \A j \in FindingsAbout(f.name) :
                     /\ results[j].severity = RESULT_INFO
                     /\ results[j].waiverauth = NOT_WAIVABLE

\* C8: a removed finding is recorded only for a declared source file, and a
\* removed member that is not declared does not make the inspection fail.
C8_RemovedOnlyDeclared ==
    /\ \A j \in 1..Len(results) :
          results[j].msg = "removed"
          => \E i \in SrcPeers : Declared(build[i], results[j].subject.item)
    /\ (pc = "done" /\ ret = "false")
       => \E j \in 1..Len(results) :
             \E i \in SrcPeers : Declared(build[i], results[j].subject.item)

ChangedFindings(name) == {j \in FindingsAbout(name) : results[j].msg = "changed"}

\* C9: a declared source file with a before peer gets a content-changed
\* finding iff its two digests differ; the finding is INFO and NOT_WAIVABLE
\* when the versions differ, VERIFY and WAIVABLE_BY_ANYONE when they are the
\* same; equal digests give no finding about the file.
C9_ChangedIffDigestsDiffer ==
    \A i \in SrcPeers : \A k \in 1..Handled(i) :
        LET f == build[i].after_files[k]
        IN  (Declared(build[i], f.name) /\ f.has_peer)
            => /\ (ChangedFindings(f.name) # {}) <=> (f.sum # f.peer_sum)
               /\ Cardinality(ChangedFindings(f.name)) <= 1
               /\ \A j \in ChangedFindings(f.name) :
                     IF build[i].bv # build[i].av
                     THEN /\ results[j].severity = RESULT_INFO
                          /\ results[j].waiverauth = NOT_WAIVABLE
                     ELSE /\ results[j].severity = RESULT_VERIFY
                          /\ results[j].waiverauth = WAIVABLE_BY_ANYONE
               /\ (f.sum = f.peer_sum) => FindingsAbout(f.name) = {}

\* a finished run over a source package of unchanged version in which one
\* declared file changed its digest and another declared file kept it
C9_Witness ==
    /\ pc = "done"
    /\ ret = "false"
    /\ \E i \in SrcPeers :
          /\ build[i].bv = build[i].av
          /\ \E k1, k2 \in 1..Len(build[i].after_files) :
                LET f == build[i].after_files[k1]
                    g == build[i].after_files[k2]
                IN  /\ Declared(build[i], f.name) /\ f.has_peer /\ f.sum # f.peer_sum
                    /\ ChangedFindings(f.name) # {}
                    /\ Declared(build[i], g.name) /\ g.has_peer /\ g.sum = g.peer_sum


\* C24: the source-file list is loaded at most once in a run and released
\* at its end, leaving the cache not loaded: every run starts without a list
\* and no file is classified against a list an earlier run released.
C24_SourceLoadedPerRun ==
    /\ pc \in {"start", "done"} => source.state = "null"
    /\ pc = "files" => source.state # "freed"

\* C27: inspect_upstream ends with a pass or fail result for every build
\* pair, without a failed assertion or a read through an absent peer: also
\* when the spec file of the after build has no before peer (a new package)
\* and when the peers hold no source package.
C27_UpstreamTerminates ==
    pc = "done" => ret \in {"true", "false"}

\* the new, changed and removed findings of the run
UpstreamProblems ==
    {j \in 1..Len(results) : /\ results[j].header = HEADER_UPSTREAM
                             /\ results[j].msg \in {"new", "changed", "removed"}}

\* the OK findings under the upstream tag
UpstreamOks ==
    {j \in 1..Len(results) : /\ results[j].header = HEADER_UPSTREAM
                             /\ results[j].severity = RESULT_OK}

\* C28: inspect_upstream returns true iff the run recorded no new, changed
\* or removed finding, whatever their severity, and it records exactly one
\* OK finding under the upstream tag iff it returns true.
C28_TrueIffNoFinding ==
    (pc = "done" /\ ret \in {"true", "false"}) =>
        /\ (ret = "true") = (UpstreamProblems = {})
        /\ Cardinality(UpstreamOks) = (IF ret = "true" THEN 1 ELSE 0)
        /\ Len(results) = Cardinality(UpstreamProblems) + Cardinality(UpstreamOks)

\* a run that returned false with nothing but INFO findings
C28_Witness ==
    /\ pc = "done"
    /\ ret = "false"
    /\ UpstreamProblems # {}
    /\ \A j \in 1..Len(results) : results[j].severity = RESULT_INFO

----------------------------------------------------------------------------
(* Properties of inspect_metadata *)

\* valid_peers returned for peer n
Completed(n) == ~(ret = "segv" /\ n = Len(peers))

MetaFindings(n, msgs) ==
    {j \in 1..Len(results) : /\ results[j].header = HEADER_METADATA
                             /\ results[j].subject.n = n
                             /\ results[j].msg \in msgs}

VendorDrifts == {"gained_vendor", "lost_vendor", "changed_vendor"}
Drifts == VendorDrifts \cup {"summary_drift", "description_drift"}

IsVerify(j) ==
    /\ results[j].severity = RESULT_VERIFY
    /\ results[j].waiverauth = WAIVABLE_BY_ANYONE

\* C13: with a before header, valid_peers records one VERIFY and
\* WAIVABLE_BY_ANYONE finding for each of vendor, summary and description that
\* differs between the two headers, each independently of the others; without
\* a before header it records no drift finding.
C13_DriftFindings ==
    \A n \in 1..Len(peers) :
        (peers[n].after_rpm /\ Completed(n))
        => LET b == peers[n].before
               a == peers[n].after
           IN  IF peers[n].has_before
               THEN /\ Cardinality(MetaFindings(n, VendorDrifts))
                          = IF b.vendor # a.vendor THEN 1 ELSE 0
                    /\ Cardinality(MetaFindings(n, {"summary_drift"}))
                          = IF b.summary # a.summary THEN 1 ELSE 0
                    /\ Cardinality(MetaFindings(n, {"description_drift"}))
                          = IF b.description # a.description THEN 1 ELSE 0
                    /\ \A j \in MetaFindings(n, Drifts) : IsVerify(j)
               ELSE MetaFindings(n, Drifts) = {}

\* a peer whose vendor, summary and description all changed got three drift
\* findings, after a peer that gained a vendor and a peer without before header
C13_Witness ==
    /\ \E n \in 1..Len(peers) :
          /\ peers[n].after_rpm /\ peers[n].has_before /\ Completed(n)
          /\ Cardinality(MetaFindings(n, Drifts)) = 3
    /\ \E n \in 1..Len(peers) :
          /\ peers[n].after_rpm /\ Completed(n)
          /\ (~peers[n].has_before \/ MetaFindings(n, {"gained_vendor"}) # {})

SomeProblem == \E j \in 1..Len(results) : results[j].severity \in {RESULT_BAD, RESULT_VERIFY}

\* C14: without a configured vendor each after package gets exactly one INFO
\* and NOT_WAIVABLE vendor finding, which does not make it fail; with a
\* configured vendor it gets a BAD and NOT_WAIVABLE finding and fails exactly
\* when its vendor is present and differs from the configured one.
C14_VendorCheck ==
    /\ \A n \in 1..Len(peers) :
          peers[n].after_rpm
          => LET a == peers[n].after
                 mismatch == a.vendor # NULL /\ a.vendor # vendor
             IN  IF vendor = NULL
                 THEN /\ Cardinality(MetaFindings(n, {"vendor_unset"})) = 1
                      /\ \A j \in MetaFindings(n, {"vendor_unset"}) :
                            /\ results[j].severity = RESULT_INFO
                            /\ results[j].waiverauth = NOT_WAIVABLE
                      /\ MetaFindings(n, {"vendor_mismatch"}) = {}
                 ELSE /\ MetaFindings(n, {"vendor_unset"}) = {}
                      /\ Cardinality(MetaFindings(n, {"vendor_mismatch"}))
                            = IF mismatch THEN 1 ELSE 0
                      /\ \A j \in MetaFindings(n, {"vendor_mismatch"}) :
                            /\ results[j].severity = RESULT_BAD
                            /\ results[j].waiverauth = NOT_WAIVABLE
                      /\ (mismatch /\ Completed(n)) => ~locals.good
    /\ ~locals.good => SomeProblem

\* both outcomes of the configured vendor in one finished run: a package of
\* another vendor, and a package without vendor
C14_Witness ==
    /\ pc = "done"
    /\ ret = "false"
    /\ vendor # NULL
    /\ \E n \in 1..Len(peers) : MetaFindings(n, {"vendor_mismatch"}) # {}
    /\ \E n \in 1..Len(peers) : peers[n].after_rpm /\ peers[n].after.vendor = NULL

\* C15: inspect_metadata returns true iff no BAD or VERIFY finding was
\* recorded for any peer with an after package; it records exactly one OK
\* finding iff it returns true; peers without an after package get no finding.
C15_TrueIffAllPassed ==
    /\ \A n \in 1..Len(peers) :
          ~peers[n].after_rpm => MetaFindings(n, {results[j].msg : j \in 1..Len(results)}) = {}
    /\ Cardinality({j \in 1..Len(results) : results[j].severity = RESULT_OK})
          = IF ret = "true" THEN 1 ELSE 0
    /\ (pc = "done" /\ ret \in {"true", "false"})
       => (ret = "true"
           <=> \A n \in 1..Len(peers) :
                  peers[n].after_rpm
                  => \A j \in MetaFindings(n, {results[k].msg : k \in 1..Len(results)}) :
                        results[j].severity \notin {RESULT_BAD, RESULT_VERIFY})

\* inspect_metadata returned true over a peer without after package and a
\* peer that passed with an INFO finding
C15_Witness ==
    /\ pc = "done"
    /\ ret = "true"
    /\ \E n \in 1..Len(peers) : ~peers[n].after_rpm
    /\ \E n \in 1..Len(peers) : MetaFindings(n, {"vendor_unset"}) # {}

\* C16: for every combination of present and absent vendor, build host,
\* summary and description in the two headers valid_peers completes normally:
\* a check whose field is absent is skipped, never evaluated on the absent value.
C16_CompletesNormally == ret \notin {"segv", "abort"}


----------------------------------------------------------------------------
(* Properties of the result sink *)

Severities == {RESULT_OK, RESULT_INFO, RESULT_VERIFY, RESULT_BAD, RESULT_FATAL}

\* the greatest severity among the findings rs, RESULT_OK when there is none
MaxSeverity(rs) ==
    CHOOSE s \in Severities :
        /\ s = RESULT_OK \/ \E i \in 1..Len(rs) : rs[i].severity = s
        /\ \A i \in 1..Len(rs) : SevRank(rs[i].severity) <= SevRank(s)

\* C19: from worst_result = OK and no results on, worst_result is the greatest
\* severity among the recorded findings, it never decreases, and the recorded
\* findings stay as they are: results only grows at its end.
C19_WorstIsMaximum ==
    /\ [](worst_result = MaxSeverity(results))
    /\ [][/\ SevRank(worst_result') >= SevRank(worst_result)
          /\ Len(results') >= Len(results)
          /\ SubSeq(results', 1, Len(results)) = results]_vars

\* an INFO finding was recorded after a BAD one, and a VERIFY one as well
C19_Witness ==
    /\ worst_result = RESULT_BAD
    /\ \E i, j \in 1..Len(results) :
          /\ i < j
          /\ results[i].severity = RESULT_BAD
          /\ results[j].severity = RESULT_INFO
    /\ \E i \in 1..Len(results) : results[i].severity = RESULT_VERIFY

----------------------------------------------------------------------------
(* Properties of init_rpminspect *)

\* init_rpminspect has returned to its caller
Returned == pc = "done" /\ ret \in {"0", "-1"}

\* some regular expression of the dictionary does not compile
HasBadRegex(dict) ==
    \E k \in 1..Len(RegexKeys) : dict[RegexKeys[k]] \in BadPatterns

\* the main file was read and one of its expressions did not compile
MainRegexFailed ==
    /\ config.main.kind = "file"
    /\ HasBadRegex(config.main.dict)

\* the overlay of the profile was read and one of its expressions did not
\* compile
OverlayRegexFailed ==
    /\ config.main.kind = "file"
    /\ ~HasBadRegex(config.main.dict)
    /\ config.profile
    /\ config.profiles[ri.profiledir].kind = "file"
    /\ HasBadRegex(config.profiles[ri.profiledir].dict)

\* C20: init_rpminspect returns -1 when a regular expression of the main
\* configuration file or of the profile overlay fails to compile, and 0
\* when every file it read was read to the end.
C20_RegexFailureReturnsError ==
    Returned =>
        (ret = "-1") = (MainRegexFailed \/ OverlayRegexFailed)

\* C21: with a missing or unreadable configuration file init_rpminspect
\* returns 0 and leaves the structure as it is after an empty configuration
\* file was read: every setting at its default and the runtime members
\* initialised (peers created, threshold VERIFY, worst_result OK, no
\* results).
C21_MissingConfigIsEmptyConfig ==
    (pc = "done" /\ config.main.kind = "missing") =>
        /\ ret = "0"
        /\ ri = RuntimeMembers(Defaults)

\* the overlay of the profile was read
OverlayRead ==
    /\ config.main.kind = "file"
    /\ ~HasBadRegex(config.main.dict)
    /\ config.profile
    /\ config.profiles[ri.profiledir].kind = "file"

\* the settings once the main file has been read
MainSettings ==
    read_cfgfile(config.main.dict, [Defaults EXCEPT !.cfgfile = TRUE], FALSE).ri

\* a key of the overlay replaces the value of the main file, an absent key
\* keeps it
Overlaid(value, old) == IF value # NULL THEN value ELSE old

OverlaidList(value, old) == IF value # NULL THEN parse_list(value) ELSE old

OverlaidRegex(value, old) == IF value # NULL THEN Compiled(value) ELSE old

\* C29: after init_rpminspect with a profile overlay, workdir and
\* profiledir are the values of the main file (or the defaults) whatever
\* the overlay holds, and every other setting is the overlay's value where
\* the overlay has the key (a list replaced as a whole) and the main file's
\* value where it has not.
C29_OverlayReplacesPresentKeys ==
    (pc = "done" /\ ret = "0" /\ OverlayRead) =>
        LET m == MainSettings
            o == config.profiles[ri.profiledir].dict
        IN /\ ri.workdir = m.workdir
           /\ ri.profiledir = m.profiledir
           /\ ri.licensedb = Overlaid(o.licensedb, m.licensedb)
           /\ ri.vendor = Overlaid(o.vendor, m.vendor)
           /\ ri.badwords = OverlaidList(o.badwords, m.badwords)
           /\ ri.buildhost_subdomain =
                  OverlaidList(o.buildhost_subdomain, m.buildhost_subdomain)
           /\ \A k \in 1..Len(RegexKeys) :
                  ri[RegexKeys[k]] = OverlaidRegex(o[RegexKeys[k]], m[RegexKeys[k]])
           /\ ri.desktop_entry_files_dir =
                  Overlaid(o.desktop_entry_files_dir, m.desktop_entry_files_dir)

----------------------------------------------------------------------------
(* Properties of init_stat_whitelist and init_caps_whitelist *)

\* the fields of a line that is neither blank nor a comment
LineFields(line) == Tokens(TrimLineEnding(line), 1, <<>>)

\* a stat whitelist line with mode, owner, group and a filename holding a '/'
WellFormedStatLine(line) ==
    /\ ~SkippedLine(line)
    /\ Len(LineFields(line)) >= 4
    /\ \E i \in 1..Len(LineFields(line)[4]) : LineFields(line)[4][i] = "/"

\* a capabilities line with package, path and capabilities
WellFormedCapsLine(line) ==
    /\ ~SkippedLine(line)
    /\ Len(LineFields(line)) >= 3

\* the file entries of the capability whitelist, over all packages
RECURSIVE AllCapsFiles(_)
AllCapsFiles(items) ==
    IF items = <<>> THEN <<>>
    ELSE Head(items).files \o AllCapsFiles(Tail(items))

\* C22: a malformed whitelist line (whitespace only, too few fields, a stat
\* filename without '/') adds no entry and does not end the load, and the
\* well-formed lines each give one entry: every stat entry has a filename
\* starting with '/', every capability file entry a path and capabilities.
C22_MalformedLinesSkipped ==
    /\ ret \notin {"abort", "segv"}
    /\ \A i \in 1..Len(stat_whitelist.items) :
           /\ stat_whitelist.items[i].filename # NULL
           /\ stat_whitelist.items[i].filename[1] = "/"
    /\ \A i \in 1..Len(AllCapsFiles(caps_whitelist.items)) :
           /\ AllCapsFiles(caps_whitelist.items)[i].path # NULL
           /\ AllCapsFiles(caps_whitelist.items)[i].caps # NULL
    /\ Len(stat_whitelist.items) =
           Cardinality({i \in 1..Len(statfile) : WellFormedStatLine(statfile[i])})
    /\ Len(AllCapsFiles(caps_whitelist.items)) =
           Cardinality({i \in 1..Len(capsfile) : WellFormedCapsLine(capsfile[i])})

\* the file entry a capabilities line stands for
FileEntryOf(line) ==
    [path |-> IF Len(LineFields(line)) >= 2 THEN LineFields(line)[2] ELSE NULL,
     caps |-> IF Len(LineFields(line)) >= 3 THEN LineFields(line)[3] ELSE NULL]

\* the line has a first field and it is pkg
LineOfPackage(line, pkg) ==
    /\ ~SkippedLine(line)
    /\ LineFields(line) # <<>>
    /\ LineFields(line)[1] = pkg

\* the file entries of the lines of a package, in file order
RECURSIVE FilesOfPackage(_, _)
FilesOfPackage(lines, pkg) ==
    IF lines = <<>> THEN <<>>
    ELSE (IF LineOfPackage(Head(lines), pkg) THEN <<FileEntryOf(Head(lines))>> ELSE <<>>)
         \o FilesOfPackage(Tail(lines), pkg)

\* C30: no two entries of the capability whitelist have the same package
\* name; the file list of an entry holds, in file order, the file entries of
\* exactly the lines whose first field is its package name; and a call of
\* init_caps_whitelist on a loaded whitelist returns true and changes
\* nothing.
C30_CapsGroupedByPackage ==
    /\ [](/\ \A i, j \in 1..Len(caps_whitelist.items) :
                 caps_whitelist.items[i].pkg = caps_whitelist.items[j].pkg => i = j
          /\ \A i \in 1..Len(caps_whitelist.items) :
                 caps_whitelist.items[i].files =
                     FilesOfPackage(capsfile, caps_whitelist.items[i].pkg)
          /\ \A k \in 1..Len(capsfile) :
                 (~SkippedLine(capsfile[k]) /\ LineFields(capsfile[k]) # <<>>) =>
                     \E i \in 1..Len(caps_whitelist.items) :
                         caps_whitelist.items[i].pkg = LineFields(capsfile[k])[1])
    /\ [][(InitCapsWhitelist /\ ~caps_whitelist.null) =>
              /\ ret' = "true"
              /\ caps_whitelist' = caps_whitelist
              /\ capsfile' = capsfile]_vars

\* a load has returned that read a line of package p, one of package q and
\* a second line of p
C30_Witness ==
    /\ pc = "idle"
    /\ ret = "true"
    /\ Len(capsfile) = 3
    /\ Len(caps_whitelist.items) = 2
    /\ caps_whitelist.items[1].pkg = <<"p">>
    /\ caps_whitelist.items[1].files =
           << [path |-> <<"/", "f">>, caps |-> <<"c">>],
              [path |-> <<"/", "g">>, caps |-> <<"c">>] >>
    /\ caps_whitelist.items[2].pkg = <<"q">>
    /\ Len(caps_whitelist.items[2].files) = 1

====
